---- MODULE Spec2Model ----
(***************************************************************************)
(* gmaps2vcard: the opening-hours pipeline of package schedule             *)
(* (src/schedule/schedule.go): normalizeText, parseScheduleText, Parse,    *)
(* groupConsecutiveDays, formatGroup and Format.                           *)
(*                                                                         *)
(* Texts are TLA+ strings and are processed character by character, as the *)
(* Go code does.  TLA+ string literals are ASCII, so the six non-ASCII     *)
(* code points the code distinguishes are written with the ASCII           *)
(* characters named below; these characters occur in no other role.        *)
(***************************************************************************)
EXTENDS Integers, Sequences, FiniteSets, TLC

\* U+2013 EN DASH and U+2014 EM DASH
EnDash == "~"
EmDash == "_"
\* U+00E1 (a acute), U+00C1 (A acute), U+00E9 (e acute), U+00C9 (E acute)
aAcute == "{"
AAcute == "["
eAcute == "}"
EAcute == "]"

(***************************************************************************)
(* Package strings, on TLA+ strings.  Positions are 0-based as in Go.      *)
(***************************************************************************)
Min(S) == CHOOSE x \in S : \A y \in S : x <= y

\* s[i:j]
Slice(s, i, j) == SubSeq(s, i + 1, j)

\* s[i] as a one-character string
CharAt(s, i) == SubSeq(s, i + 1, i + 1)

\* strings.Index: the position of the first occurrence of sub in s, or -1
Index(s, sub) ==
  LET hits == {i \in 0..(Len(s) - Len(sub)) : Slice(s, i, i + Len(sub)) = sub}
  IN  IF hits = {} THEN -1 ELSE Min(hits)

\* strings.Contains
Contains(s, sub) == Index(s, sub) >= 0

\* strings.ReplaceAll for a non-empty old: non-overlapping occurrences,
\* leftmost first
RECURSIVE ReplaceAll(_, _, _)
ReplaceAll(s, old, new) ==
  LET k == Index(s, old)
  IN  IF k = -1 THEN s
      ELSE Slice(s, 0, k) \o new \o ReplaceAll(Slice(s, k + Len(old), Len(s)), old, new)

\* strings.ToLower on the letters of the model's alphabet
UpperLetters == "ABCDEFGHIJKLMNOPQRSTUVWXYZ[]"
LowerLetters == "abcdefghijklmnopqrstuvwxyz{}"

LowerChar(c) ==
  LET k == Index(UpperLetters, c)
  IN  IF k = -1 THEN c ELSE CharAt(LowerLetters, k)

\* (the text is mapped half by half to keep the evaluation shallow)
RECURSIVE ToLower(_)
ToLower(s) ==
  IF Len(s) = 0 THEN ""
  ELSE IF Len(s) = 1 THEN LowerChar(s)
  ELSE LET h == Len(s) \div 2
       IN  ToLower(Slice(s, 0, h)) \o ToLower(Slice(s, h, Len(s)))

\* unicode.IsSpace on the model's alphabet
IsSpace(c) == c \in {" ", "\t", "\n", "\r"}

\* strings.TrimSpace
RECURSIVE TrimLeft(_)
TrimLeft(s) ==
  IF s # "" /\ IsSpace(CharAt(s, 0)) THEN TrimLeft(Slice(s, 1, Len(s))) ELSE s

RECURSIVE TrimRight(_)
TrimRight(s) ==
  IF s # "" /\ IsSpace(CharAt(s, Len(s) - 1)) THEN TrimRight(Slice(s, 0, Len(s) - 1)) ELSE s

TrimSpace(s) == TrimRight(TrimLeft(s))

\* regexp.MustCompile(` +`).ReplaceAllString(s, " "): every maximal run of
\* spaces becomes one space, i.e. a space that follows a space is dropped.
\* CollapseRange does so for the positions lo .. hi-1 of s.
RECURSIVE CollapseRange(_, _, _)
CollapseRange(s, lo, hi) ==
  IF lo >= hi THEN ""
  ELSE IF hi = lo + 1
       THEN IF CharAt(s, lo) = " " /\ lo > 0 /\ CharAt(s, lo - 1) = " " THEN "" ELSE CharAt(s, lo)
       ELSE LET h == (lo + hi) \div 2
            IN  CollapseRange(s, lo, h) \o CollapseRange(s, h, hi)

CollapseSpaces(s) == CollapseRange(s, 0, Len(s))

(***************************************************************************)
(* normalizeText                                                           *)
(***************************************************************************)
\* variant: the en-dash and em-dash are not rewritten to hyphens
cleanTextKeepDashes(text) ==
  LET t5 == ReplaceAll(text, "\t", " ")
      t6 == ReplaceAll(t5, "\r", "")
      t7 == CollapseSpaces(t6)
      t8 == ReplaceAll(t7, "\n", " ")
  IN  ToLower(t8)

\* the dash and whitespace rewriting, up to and including strings.ToLower
cleanText(text) ==
  LET t1 == ReplaceAll(text, EnDash, "-")
      t2 == ReplaceAll(t1, EmDash, "-")
      t3 == ReplaceAll(t2, EnDash, "-")
      t4 == ReplaceAll(t3, EmDash, "-")
      t5 == ReplaceAll(t4, "\t", " ")
      t6 == ReplaceAll(t5, "\r", "")
      t7 == CollapseSpaces(t6)
      t8 == ReplaceAll(t7, "\n", " ")
  IN  ToLower(t8)

\* the map literal dayTranslations
dayTranslations ==
  { <<"lunes", "monday">>,
    <<"martes", "tuesday">>,
    <<"mi" \o eAcute \o "rcoles", "wednesday">>,
    <<"miercoles", "wednesday">>,
    <<"jueves", "thursday">>,
    <<"viernes", "friday">>,
    <<"s" \o aAcute \o "bado", "saturday">>,
    <<"sabado", "saturday">>,
    <<"domingo", "sunday">> }

\* The loop `for spanish, english := range dayTranslations`: Go leaves the
\* iteration order of a map unspecified, so every order is an outcome.
\* W holds the pairs <<text so far, entries not yet visited>> the loop can be
\* in after some number of iterations; n iterations remain.
RECURSIVE translateFrom(_, _)
translateFrom(W, n) ==
  IF n = 0 THEN { w[1] : w \in W }
  ELSE translateFrom(
         UNION { { <<ReplaceAll(w[1], e[1], e[2]), w[2] \ {e}>> : e \in w[2] } : w \in W },
         n - 1)

translateDays(lower) ==
  translateFrom({ <<lower, dayTranslations>> }, Cardinality(dayTranslations))

\* the texts normalizeText(text, debug) can return
normalizeText(text) ==
  { ReplaceAll(l, "cerrado", "closed") : l \in translateDays(cleanText(text)) }

(***************************************************************************)
(* parseScheduleText                                                       *)
(***************************************************************************)
\* the slice literal days
days == <<"monday", "tuesday", "wednesday", "thursday", "friday", "saturday", "sunday">>

DaySet == { days[k] : k \in 1..Len(days) }

\* the regexp class \d
IsDigit(c) == c \in {"0", "1", "2", "3", "4", "5", "6", "7", "8", "9"}

\* the regexp class \s on the model's alphabet
IsReSpace(c) == c \in {" ", "\t", "\n", "\r"}

\* true iff s[i] exists and is a digit
DigitAt(s, i) == i < Len(s) /\ IsDigit(CharAt(s, i))

\* \s*, greedy: the position after the run of white space that starts at i
RECURSIVE SkipSpace(_, _)
SkipSpace(s, i) ==
  IF i < Len(s) /\ IsReSpace(CharAt(s, i)) THEN SkipSpace(s, i + 1) ELSE i

\* \d{1,2}:\d{2} anchored at i: the number of hour digits of the match (the
\* two-digit alternative is tried first), or 0 when there is no match
TimeAt(s, i) ==
  IF DigitAt(s, i) /\ DigitAt(s, i + 1) /\ i + 2 < Len(s) /\ CharAt(s, i + 2) = ":"
     /\ DigitAt(s, i + 3) /\ DigitAt(s, i + 4)
  THEN 2
  ELSE IF DigitAt(s, i) /\ i + 1 < Len(s) /\ CharAt(s, i + 1) = ":"
          /\ DigitAt(s, i + 2) /\ DigitAt(s, i + 3)
       THEN 1
       ELSE 0

\* (\d{1,2}:\d{2})\s*-\s*(\d{1,2}:\d{2}) anchored at i: <<>> when there is no
\* match, else <<group 1, group 2, position after the match>>
timeRegexAt(s, i) ==
  LET h1 == TimeAt(s, i)
      e1 == i + h1 + 3
      p  == SkipSpace(s, e1)
      q  == SkipSpace(s, p + 1)
      h2 == TimeAt(s, q)
      e2 == q + h2 + 3
  IN  IF h1 = 0 THEN <<>>
      ELSE IF ~(p < Len(s) /\ CharAt(s, p) = "-") THEN <<>>
      ELSE IF h2 = 0 THEN <<>>
      ELSE <<Slice(s, i, e1), Slice(s, q, e2), e2>>

\* timeRegex.FindAllStringSubmatch(s, -1), searching from position i: the
\* leftmost match, then the leftmost match after its end, and so on
RECURSIVE FindAllFrom(_, _)
FindAllFrom(s, i) ==
  LET starts == { j \in i..(Len(s) - 1) : timeRegexAt(s, j) # <<>> }
  IN  IF starts = {} THEN <<>>
      ELSE LET m == timeRegexAt(s, Min(starts))
           IN  <<m>> \o FindAllFrom(s, m[3])

FindAllStringSubmatch(s) == FindAllFrom(s, 0)

\* variant: the hour is not padded
normalizeTimeNoPad(t) == t

\* normalizeTime; strings.Split(t, ":") has two parts exactly when t holds
\* one colon
normalizeTime(t) ==
  LET c == Index(t, ":")
      hour == Slice(t, 0, c)
      minute == Slice(t, c + 1, Len(t))
  IN  IF c = -1 \/ Contains(minute, ":") THEN t
      ELSE IF Len(hour) = 1 THEN "0" \o hour \o ":" \o minute
           ELSE hour \o ":" \o minute

\* afterDay: the text behind the first occurrence of day (which must occur)
afterDay(text, day) == Slice(text, Index(text, day) + Len(day), Len(text))

\* variant: a further occurrence of the day's own name ends the window too
nextDayIdxAnyDay(after, day) ==
  LET hits == { Index(after, otherDay) : otherDay \in DaySet } \ {-1}
  IN  IF hits = {} THEN Len(after) ELSE Min(hits \cup {Len(after)})

\* variant: no other day name ends the window, it runs to the end of the text
nextDayIdxEndOfText(after, day) == Len(after)

\* nextDayIdx: the least position in after of any other day name, else its length
nextDayIdx(after, day) ==
  LET hits == { Index(after, otherDay) : otherDay \in DaySet \ {day} } \ {-1}
  IN  IF hits = {} THEN Len(after) ELSE Min(hits \cup {Len(after)})

\* dayContent, for a day that occurs in text
dayContent(text, day) ==
  LET after == afterDay(text, day)
  IN  TrimSpace(Slice(after, 0, nextDayIdx(after, day)))

\* the ranges built from the matches in a content window
rangesOf(content) ==
  LET matches == FindAllStringSubmatch(content)
  IN  [k \in 1..Len(matches) |->
         [Start |-> normalizeTime(matches[k][1]), End |-> normalizeTime(matches[k][2])]]

\* the days that receive an entry in the result map
dayHasEntry(text, day) ==
  /\ Index(text, day) # -1
  /\ \/ Contains(dayContent(text, day), "closed")
     \/ Len(FindAllStringSubmatch(dayContent(text, day))) > 0

\* variant: the "closed" check is missing, the intervals of a closed day count
parseScheduleTextNoClosed(text) ==
  [day \in { d \in DaySet : dayHasEntry(text, d) } |-> rangesOf(dayContent(text, day))]

\* parseScheduleText(text, debug): the result map, day name -> ranges
parseScheduleText(text) ==
  [day \in { d \in DaySet : dayHasEntry(text, d) } |->
     IF Contains(dayContent(text, day), "closed") THEN <<>>
     ELSE rangesOf(dayContent(text, day))]

(***************************************************************************)
(* Parse                                                                   *)
(***************************************************************************)
\* the constants Sunday .. Saturday
Sunday == 0
Monday == 1
Tuesday == 2
Wednesday == 3
Thursday == 4
Friday == 5
Saturday == 6

\* dayNameToNumber: the mapping, as a function on the names it knows
dayNameToNumber ==
  [name \in {"sunday", "monday", "tuesday", "wednesday", "thursday", "friday", "saturday"} |->
     CASE name = "sunday" -> Sunday
       [] name = "monday" -> Monday
       [] name = "tuesday" -> Tuesday
       [] name = "wednesday" -> Wednesday
       [] name = "thursday" -> Thursday
       [] name = "friday" -> Friday
       [] name = "saturday" -> Saturday]

\* variant: the initialisation loop leaves Day at its zero value
initialScheduleNoDay ==
  [i \in 0..6 |-> [Day |-> 0, Ranges |-> <<>>, Closed |-> TRUE]]

\* variant: the days start open instead of closed
initialScheduleOpen ==
  [i \in 0..6 |-> [Day |-> i, Ranges |-> <<>>, Closed |-> FALSE]]

\* the schedule after the loop "Initialize all days"
initialSchedule ==
  [i \in 0..6 |-> [Day |-> i, Ranges |-> <<>>, Closed |-> TRUE]]

\* variant: the populate loop stores the ranges and leaves Closed as it was
populateKeepClosed(schedule, parsed) ==
  [i \in DOMAIN schedule |->
     LET keys == { day \in DOMAIN parsed :
                     ToLower(day) \in DOMAIN dayNameToNumber /\ dayNameToNumber[ToLower(day)] = i }
     IN  IF keys = {} THEN schedule[i]
         ELSE [schedule[i] EXCEPT !.Ranges = parsed[CHOOSE day \in keys : TRUE]]]

\* the schedule after the loop "Populate schedule" over the map parsed; the
\* keys write to different elements of Days, so their order does not matter
populate(schedule, parsed) ==
  [i \in DOMAIN schedule |->
     LET keys == { day \in DOMAIN parsed :
                     ToLower(day) \in DOMAIN dayNameToNumber /\ dayNameToNumber[ToLower(day)] = i }
     IN  IF keys = {} THEN schedule[i]
         ELSE LET ranges == parsed[CHOOSE day \in keys : TRUE]
              IN  [schedule[i] EXCEPT !.Ranges = ranges, !.Closed = (Len(ranges) = 0)]]

\* the schedule Parse returns when normalizeText returned normalized
scheduleOf(normalized) == populate(initialSchedule, parseScheduleText(normalized))

(***************************************************************************)
(* Format                                                                  *)
(***************************************************************************)
\* DayOfWeek.String
DayString(d) == <<"Sun", "Mon", "Tue", "Wed", "Thu", "Fri", "Sat">>[d + 1]

\* TimeRange.String
RangeString(tr) == tr.Start \o "-" \o tr.End

\* the characters of a Go string compare by byte value: the ASCII characters
\* of the model's alphabet in increasing order, then the non-ASCII ones in
\* the order of their code points
ByteOrder ==
  " #$%&+,-./0123456789:;<=>?@ABCDEFGHIJKLMNOPQRSTUVWXYZ^abcdefghijklmnopqrstuvwxyz|"
    \o AAcute \o EAcute \o aAcute \o eAcute \o EnDash \o EmDash

\* a < b on Go strings
RECURSIVE StringLess(_, _)
StringLess(a, b) ==
  IF b = "" THEN FALSE
  ELSE IF a = "" THEN TRUE
  ELSE IF CharAt(a, 0) = CharAt(b, 0) THEN StringLess(Slice(a, 1, Len(a)), Slice(b, 1, Len(b)))
  ELSE Index(ByteOrder, CharAt(a, 0)) < Index(ByteOrder, CharAt(b, 0))

\* the less function handed to sort.Slice
rangeLess(x, y) == StringLess(x.Start, y.Start)

\* sort.Slice on a slice of at most 12 elements runs insertion sort: element
\* k moves left while it is less than its left neighbour
RECURSIVE InsertLeft(_, _)
InsertLeft(rs, j) ==
  IF j > 1 /\ rangeLess(rs[j], rs[j - 1])
  THEN InsertLeft([rs EXCEPT ![j] = rs[j - 1], ![j - 1] = rs[j]], j - 1)
  ELSE rs

RECURSIVE InsertionSort(_, _)
InsertionSort(rs, k) ==
  IF k > Len(rs) THEN rs ELSE InsertionSort(InsertLeft(rs, k), k + 1)

sortSlice(rs) == InsertionSort(rs, 2)

\* the length up to which sort.Slice runs insertion sort
maxInsertion == 12

\* the lists of S and every list that comes from one of them by exchanging,
\* any number of times, two neighbours of equal Start
RECURSIVE TieOrders(_)
TieOrders(S) ==
  LET TieSwaps(rs) ==
        { [rs EXCEPT ![i] = rs[i + 1], ![i + 1] = rs[i]] :
            i \in { j \in 1..(Len(rs) - 1) : rs[j].Start = rs[j + 1].Start } }
      T == S \cup UNION { TieSwaps(rs) : rs \in S }
  IN  IF T = S THEN S ELSE TieOrders(T)

\* what sort.Slice can leave in the slice: up to maxInsertion elements the
\* insertion sort above; beyond that sort.Slice promises an order by less
\* and nothing about elements that compare equal ("not guaranteed to be
\* stable"), so every order of the ranges with equal Start is possible
sortSliceOutcomes(rs) ==
  IF Len(rs) <= maxInsertion THEN {sortSlice(rs)} ELSE TieOrders({sortSlice(rs)})

\* strings.Join
RECURSIVE Join(_, _)
Join(parts, sep) ==
  IF Len(parts) = 0 THEN ""
  ELSE IF Len(parts) = 1 THEN parts[1]
  ELSE parts[1] \o sep \o Join(Tail(parts), sep)

\* variant: the ranges are compared as sets, whatever their order
schedulesEqualAsSets(a, b) ==
  /\ a.Closed = b.Closed
  /\ { a.Ranges[i] : i \in 1..Len(a.Ranges) } = { b.Ranges[i] : i \in 1..Len(b.Ranges) }

\* variant: the comparison also looks at the Day field
schedulesEqualWithDay(a, b) ==
  /\ a.Day = b.Day
  /\ a.Closed = b.Closed
  /\ a.Ranges = b.Ranges

\* schedulesEqual
schedulesEqual(a, b) ==
  IF a.Closed # b.Closed THEN FALSE
  ELSE IF Len(a.Ranges) # Len(b.Ranges) THEN FALSE
  ELSE \A i \in 1..Len(a.Ranges) : a.Ranges[i] = b.Ranges[i]

\* variant: the days are walked in storage order, Sunday first
orderedDaysSundayFirst ==
  <<Sunday, Monday, Tuesday, Wednesday, Thursday, Friday, Saturday>>

\* the slice literal orderedDays
orderedDays == <<Monday, Tuesday, Wednesday, Thursday, Friday, Saturday, Sunday>>

\* variant: the inner loop stops one day early, the last day is never merged
RECURSIVE runEndStopsEarly(_, _, _)
runEndStopsEarly(ws, i, endIdx) ==
  IF endIdx + 1 < Len(orderedDays)
     /\ schedulesEqual(ws[orderedDays[i]], ws[orderedDays[endIdx + 1]])
  THEN runEndStopsEarly(ws, i, endIdx + 1)
  ELSE endIdx

\* the inner loop of groupConsecutiveDays: the last index (1-based into
\* orderedDays) of the run that starts at i, advancing from endIdx
RECURSIVE runEnd(_, _, _)
runEnd(ws, i, endIdx) ==
  IF endIdx + 1 <= Len(orderedDays)
     /\ schedulesEqual(ws[orderedDays[i]], ws[orderedDays[endIdx + 1]])
  THEN runEnd(ws, i, endIdx + 1)
  ELSE endIdx

\* variant: the next group starts at the last day of the group before it
RECURSIVE groupsFromOverlapping(_, _)
groupsFromOverlapping(ws, i) ==
  IF i > Len(orderedDays) THEN <<>>
  ELSE LET endIdx == runEnd(ws, i, i)
           group == [StartDay |-> orderedDays[i],
                     EndDay |-> orderedDays[endIdx],
                     Ranges |-> ws[orderedDays[i]].Ranges,
                     Closed |-> ws[orderedDays[i]].Closed]
       IN  <<group>> \o groupsFromOverlapping(ws, IF endIdx > i THEN endIdx ELSE i + 1)

\* the outer loop of groupConsecutiveDays, from index i on
RECURSIVE groupsFrom(_, _)
groupsFrom(ws, i) ==
  IF i > Len(orderedDays) THEN <<>>
  ELSE LET endIdx == runEnd(ws, i, i)
           group == [StartDay |-> orderedDays[i],
                     EndDay |-> orderedDays[endIdx],
                     Ranges |-> ws[orderedDays[i]].Ranges,
                     Closed |-> ws[orderedDays[i]].Closed]
       IN  <<group>> \o groupsFrom(ws, endIdx + 1)

groupConsecutiveDays(ws) == groupsFrom(ws, 1)

\* formatGroup, given the slice ranges as sort.Slice left it
formatGroupSorted(g, ranges) ==
  LET dayPart == IF g.StartDay = g.EndDay THEN DayString(g.StartDay)
                 ELSE DayString(g.StartDay) \o "-" \o DayString(g.EndDay)
      rangeParts == [i \in 1..Len(ranges) |-> RangeString(ranges[i])]
  IN  IF g.Closed \/ Len(g.Ranges) = 0 THEN dayPart \o " Closed"
      ELSE dayPart \o " " \o Join(rangeParts, ", ")

\* formatGroup, for a group of at most maxInsertion ranges
formatGroup(g) == formatGroupSorted(g, sortSlice(g.Ranges))

\* variant: sort.Slice runs on g.Ranges itself, the array that the first day
\* of the group holds
arrayAfterFormatGroupInPlace(g) ==
  IF g.Closed \/ Len(g.Ranges) = 0 THEN g.Ranges ELSE sortSlice(g.Ranges)

\* the array behind g.Ranges when formatGroup(g) has returned: formatGroup
\* makes the slice ranges, copies g.Ranges into it and sorts the copy; the
\* array behind g.Ranges is read and never written
arrayAfterFormatGroup(g) == g.Ranges

\* the WeekSchedule when ws.Format has returned. currentSched is a copy of
\* the DaySchedule struct and the group takes its Ranges, a slice header
\* that shares its array with Days[StartDay].Ranges: what formatGroup leaves
\* in that array is what the day holds afterwards. Nothing else of ws is
\* assigned to
scheduleAfterFormat(ws) ==
  LET groups == groupConsecutiveDays(ws)
      startsAt(d) == { k \in 1..Len(groups) : groups[k].StartDay = d }
  IN  [d \in DOMAIN ws |->
         IF startsAt(d) = {} THEN ws[d]
         ELSE [ws[d] EXCEPT
                 !.Ranges = arrayAfterFormatGroup(groups[CHOOSE k \in startsAt(d) : TRUE])]]

\* the slice parts that Format joins
formatParts(ws) ==
  LET groups == groupConsecutiveDays(ws)
  IN  [k \in 1..Len(groups) |-> formatGroup(groups[k])]

\* variant: the segments are joined like the ranges, with ", "
FormatCommaJoin(ws) == Join(formatParts(ws), ", ")

\* WeekSchedule.Format
Format(ws) == Join(formatParts(ws), "; ")

(***************************************************************************)
(* The lines written by log.Printf when debug is set                       *)
(***************************************************************************)
\* the lines parseScheduleText logs for one day
dayLogLines(text, day) ==
  IF Index(text, day) = -1 THEN 1
  ELSE IF Contains(dayContent(text, day), "closed") THEN 2
  ELSE IF Len(FindAllStringSubmatch(dayContent(text, day))) > 0
       THEN 1 + Len(FindAllStringSubmatch(dayContent(text, day)))
       ELSE 2

RECURSIVE SumDayLogLines(_, _)
SumDayLogLines(text, k) ==
  IF k > Len(days) THEN 0 ELSE dayLogLines(text, days[k]) + SumDayLogLines(text, k + 1)

\* the lines one call Parse(rawText, true) logs when normalizeText returned
\* normalized: 2 in Parse before and 2 in normalizeText, 1 after it, 1 at the
\* head of parseScheduleText, those of the seven days, 1 for every key of
\* the result map, and the closing 1
parseLogLines(normalized) ==
  2 + 2 + 1 + 1 + SumDayLogLines(normalized, 1)
    + Cardinality(DOMAIN parseScheduleText(normalized)) + 1

\* the lines one call Format(true) logs: 1 at the start, 1 for every group, 2
\* at the end
formatLogLines(ws) == 1 + Len(groupConsecutiveDays(ws)) + 2

(***************************************************************************)
(* The values a call can return. debug is read by the guards of the        *)
(* log.Printf calls only, so it does not occur on the right-hand sides     *)
(***************************************************************************)
\* the schedules Parse(text, dbg) can return, one for every order in which
\* normalizeText can walk the translation table
ParseReturns(text, dbg) == { scheduleOf(n) : n \in normalizeText(text) }

\* the strings ws.Format(dbg) can return
FormatReturns(ws, dbg) == { Format(ws) }

(***************************************************************************)
(* The inputs                                                              *)
(***************************************************************************)
\* the input of TestParseSpanishSchedule
SpanishInput ==
  "jueves 8:00~13:00 15:00~18:00  viernes 8:00~13:00 15:00~18:00  s{bado  domingo  lunes 8:00~13:00 15:00~18:00  martes 8:00~13:00 15:00~18:00  mi}rcoles 8:00~13:00 15:00~18:00"

\* the input of TestParseEnglishSchedule
EnglishInput ==
  "Monday 9:00-17:00 Tuesday 9:00-17:00 Wednesday closed Thursday 9:00-17:00 Friday 9:00-17:00 Saturday closed Sunday closed"

\* a day followed by hours in the Spanish wording "De 8:00 a 13:00"
SpanishTimeInput == "lunes De 8:00 a 13:00"

\* a line break followed by a space
LineBreakInput == "monday\n 9:00-17:00"

\* a day whose name recurs inside its own window, with an interval that
\* occurs twice
RepeatedDayInput == "monday 9:00-12:00 monday 14:00-18:00 9:00-12:00 tuesday 10:00-11:00"

\* every other day open, from Tuesday on
AlternatingInput == "tuesday 9:00-17:00 thursday 9:00-17:00 saturday 9:00-17:00"

\* a day whose name recurs behind another day
LateRepeatInput == "monday 9:00-12:00 tuesday 10:00-11:00 monday 14:00-18:00"

\* further whole texts: one day with one interval; a closed day whose window
\* also holds hours and a second mention of its name; a day name that a
\* carriage return splits; two Spanish day names that share letters; a
\* Spanish day name that only a translation completes; two days that hold
\* the same two ranges in different order, the ranges starting at the same
\* time; two intervals of one day, the later one first and the earlier one
\* with a minute part above 59, which the pattern \d{2} admits
ScenarioInputs ==
  { SpanishInput,
    EnglishInput,
    "monday 9:00-17:00",
    "Lunes 9:00-17:00 Martes cerrado 10:00-11:00 Tuesday 1:00-2:00 Jueves 9:00-17:00",
    "mon\rday 9:00-17:00",
    "sabadomingo 9:00-10:00",
    "lunedomingo 9:00-10:00",
    SpanishTimeInput,
    LineBreakInput,
    RepeatedDayInput,
    LateRepeatInput,
    "monday 9:00-17:00 9:00-12:00 tuesday 9:00-12:00 9:00-17:00",
    "monday 11:05-12:00 10:70-11:00",
    AlternatingInput }

\* the pieces the other input texts are put together from
Fragments ==
  << "Monday ", "lunes", "sabado", "S[BADO", "mingo", "domingo",
     " 8:00~13:00 15:00~18:00", " 9:00 _ 17:00 ", " CERRADO", " \n\t" >>

MaxFragments == 2

RECURSIVE Texts(_)
Texts(n) ==
  IF n = 0 THEN {""}
  ELSE LET shorter == Texts(n - 1)
       IN  shorter \cup { t \o Fragments[k] : t \in shorter, k \in 1..Len(Fragments) }

Inputs == ScenarioInputs \cup Texts(MaxFragments)

\* the range lists and the weeks that a caller builds by hand, as
\* TestFormatConsecutiveDays does: every day holds one of two day values, a
\* on Monday and on the other days of S, b elsewhere
TimePool == <<"09:00", "17:00", "08:00", "13:00">>

RangePool ==
  { [Start |-> TimePool[i], End |-> TimePool[j]] : <<i, j>> \in {<<1, 2>>, <<3, 4>>} }

MaxRanges == 2

RECURSIVE RangeLists(_)
RangeLists(n) ==
  IF n = 0 THEN {<<>>}
  ELSE LET shorter == RangeLists(n - 1)
       IN  shorter \cup { Append(rs, r) : rs \in shorter, r \in RangePool }

DayValues == [Ranges : RangeLists(MaxRanges), Closed : BOOLEAN]

WeekSchedules ==
  { [i \in 0..6 |-> [Day |-> i,
                     Ranges |-> IF i \in S THEN a.Ranges ELSE b.Ranges,
                     Closed |-> IF i \in S THEN a.Closed ELSE b.Closed]] :
      a \in DayValues, b \in DayValues, S \in { T \in SUBSET (0..6) : Monday \in T } }

(***************************************************************************)
(* The state machine: a caller obtains a WeekSchedule from Parse or builds  *)
(* one by hand, and formats it                                             *)
(***************************************************************************)
VARIABLES
  pc,          \* "start", "extracted" (the hours text is at hand),
               \* "scheduled" (a schedule exists), "formatted"
  origin,      \* how the schedule came about: "none", "Parse", "literal"
  rawText,     \* the hours text at hand, the argument rawText of Parse
  debug,       \* the argument debug of the last call
  normalized,  \* the local normalized of the last Parse call
  schedule,    \* the WeekSchedule: Days[0..6]
  err,         \* the error returned by the last Parse call
  formatted,   \* the string returned by the last Format call
  logged       \* the number of lines the last call wrote to the log

scheduleVars == <<pc, origin, rawText, debug, normalized, schedule, err, formatted, logged>>

\* callers that run Parse and Format in goroutines of their own
VARIABLES
  goroutines,  \* for every goroutine the call it runs: the operation, the
               \* position in it, its arguments and its locals
  heap,        \* the WeekSchedule objects, by address: the object that the
               \* call of a goroutine allocates or receives
  logLines     \* the lines written so far to the standard logger of
               \* package log, which all calls share

concurrentVars == <<goroutines, heap, logLines>>

\* urlnormalizer: one call of Normalizer.Normalize
VARIABLES
  normPc,          \* the position in Normalize and extractFromSearchPage
  inputURL,        \* the parameter inputURL
  result,          \* the Result that Normalize builds and returns, with
                   \* its DebugInfo
  browserStarted   \* whether extractFromSearchPage has started the
                   \* headless browser

normalizerVars == <<normPc, inputURL, result, browserStarted>>

\* one call of ResolveRedirect (redirect_resolver.go) and the calls it makes
\* of itself
VARIABLES
  resolvePc,    \* "idle", "do" (client.Do is waiting for a response), "returned"
  requestURL,   \* the URL of the request that is waiting for its response
  via,          \* the requests the current client has made: len(via) of CheckRedirect
  calls,        \* the calls of ResolveRedirect begun, the first one included
  followed,     \* the redirects followed since the first call, of every kind
  resolved      \* what the first call returns: the URL and the error

resolverVars == <<resolvePc, requestURL, via, calls, followed, resolved>>

\* one call of formatGroup
VARIABLES
  fgPc,       \* "idle", "sort" (the copy of g.Ranges is made), "sorted", "returned"
  fgGroup,    \* the argument g
  fgRanges,   \* the local slice ranges
  fgResult    \* the string formatGroup returns

formatGroupVars == <<fgPc, fgGroup, fgRanges, fgResult>>

\* one run of the program (main.go); of the scraped business the model
\* keeps Name and Hours, of the vCard the NOTE field
VARIABLES
  mainPc,          \* "idle", "valid", "scraped", "parsed", "saved", or how the
                   \* program exited: "usage", "invalid", "scrape failed", "no name"
  mainURL,         \* inputURL
  business,        \* the BusinessData scraper.Extract returned
  parsedSchedule,  \* the schedule Parse returned for business.Hours
  hoursClean,      \* the local hoursClean
  note,            \* the value of the NOTE field of the card, "" when it has none
  networkUsed      \* a request has gone out to the network

mainVars == <<mainPc, mainURL, business, parsedSchedule, hoursClean, note, networkUsed>>

vars ==
  <<scheduleVars, concurrentVars, normalizerVars, resolverVars, formatGroupVars, mainVars>>

\* the zero value WeekSchedule{}
zeroSchedule == [i \in 0..6 |-> [Day |-> 0, Ranges |-> <<>>, Closed |-> FALSE]]

\* weeks whose Day fields do not name the element they stand in: the zero
\* value of WeekSchedule, and weeks a caller filled in without setting Day
\* to the index (open days without ranges among them)
MisnumberedWeeks ==
  {zeroSchedule} \cup
  { [i \in 0..6 |-> [Day |-> 6 - i,
                     Ranges |-> IF i \in {Monday, Wednesday} THEN <<r>> ELSE <<>>,
                     Closed |-> i \in {Saturday, Sunday}]] : r \in RangePool }

Goroutines == {1, 2}

\* the addresses of the WeekSchedule objects: the one that the Parse call of
\* goroutine g allocates, and the one a caller builds as the receiver of
\* the Format call of goroutine g
Addresses == 1..4

\* result := &Result{DebugInfo: &DebugInfo{InputURL: inputURL,
\* SearchAttempts: make([]SearchAttempt, 0)}}; the error nil is "nil"
newResult(url) ==
  [NormalizedURL |-> "", URLType |-> "", Success |-> FALSE, Error |-> "nil",
   DebugInfo |-> [InputURL |-> url, RedirectedURL |-> "", DetectedType |-> "",
                  SearchAttempts |-> <<>>, PageTitle |-> "", PageURL |-> "",
                  CaptchaDetected |-> FALSE]]

\* a goroutine that has not been given a call: ws and str are the values
\* the call returns, schedule is the address of the object it works on
idleCall ==
  [op |-> "none", pc |-> "idle", rawText |-> "", debug |-> FALSE, arg |-> zeroSchedule,
   schedule |-> 0, normalized |-> "", parsed |-> [day \in {} |-> <<>>],
   groups |-> <<>>, parts |-> <<>>, ws |-> zeroSchedule, str |-> ""]

Init ==
  /\ pc = "start"
  /\ origin = "none"
  /\ rawText = ""
  /\ debug = FALSE
  /\ normalized = ""
  /\ schedule = zeroSchedule
  /\ err = "nil"
  /\ formatted = ""
  /\ logged = 0
  /\ goroutines = [g \in Goroutines |-> idleCall]
  /\ heap = [a \in Addresses |-> zeroSchedule]
  /\ logLines = 0
  /\ normPc = "idle"
  /\ inputURL = ""
  /\ result = newResult("")
  /\ browserStarted = FALSE
  /\ resolvePc = "idle"
  /\ requestURL = ""
  /\ via = 0
  /\ calls = 0
  /\ followed = 0
  /\ resolved = [url |-> "", err |-> "nil"]
  /\ fgPc = "idle"
  /\ fgGroup = [StartDay |-> Sunday, EndDay |-> Sunday, Ranges |-> <<>>, Closed |-> FALSE]
  /\ fgRanges = <<>>
  /\ fgResult = ""
  /\ mainPc = "idle"
  /\ mainURL = ""
  /\ business = [Name |-> "", Hours |-> ""]
  /\ parsedSchedule = zeroSchedule
  /\ hoursClean = ""
  /\ note = ""
  /\ networkUsed = FALSE

\* the caller comes by the raw hours text (main: business.Hours)
Extract ==
  /\ pc = "start"
  /\ \E text \in Inputs :
       /\ pc' = "extracted"
       /\ rawText' = text
       /\ UNCHANGED <<origin, debug, normalized, schedule, err, formatted, logged>>
       /\ UNCHANGED <<concurrentVars, normalizerVars, resolverVars, formatGroupVars, mainVars>>

\* schedule, err := Parse(rawText, dbg)
Parse ==
  /\ pc = "extracted"
  /\ \E n \in normalizeText(rawText), dbg \in BOOLEAN :
       /\ pc' = "scheduled"
       /\ origin' = "Parse"
       /\ debug' = dbg
       /\ normalized' = n
       /\ schedule' = scheduleOf(n)
       /\ err' = "nil"
       /\ formatted' = ""
       /\ logged' = IF dbg THEN parseLogLines(n) ELSE 0
       /\ UNCHANGED rawText
       /\ UNCHANGED <<concurrentVars, normalizerVars, resolverVars, formatGroupVars, mainVars>>

\* schedule := &WeekSchedule{} filled in field by field by the caller
Build ==
  /\ pc = "start"
  /\ \E ws \in WeekSchedules \cup MisnumberedWeeks :
       /\ pc' = "scheduled"
       /\ origin' = "literal"
       /\ schedule' = ws
       /\ UNCHANGED <<rawText, debug, normalized, err, formatted, logged>>
       /\ UNCHANGED <<concurrentVars, normalizerVars, resolverVars, formatGroupVars, mainVars>>

\* formatted := schedule.Format(dbg)
FormatCall ==
  /\ pc \in {"scheduled", "formatted"}
  /\ \E dbg \in BOOLEAN :
       /\ pc' = "formatted"
       /\ debug' = dbg
       /\ formatted' = Format(schedule)
       /\ schedule' = scheduleAfterFormat(schedule)
       /\ logged' = IF dbg THEN formatLogLines(schedule) ELSE 0
       /\ UNCHANGED <<origin, rawText, normalized, err>>
       /\ UNCHANGED <<concurrentVars, normalizerVars, resolverVars, formatGroupVars, mainVars>>

Next ==
  \/ Extract
  \/ Parse
  \/ Build
  \/ FormatCall

Spec == Init /\ [][Next]_vars

(***************************************************************************)
(* Parse and Format called from goroutines: the statements of the calls    *)
(* interleave. Package schedule declares no package-level variable; a call *)
(* works on its parameters, its locals and the WeekSchedule it allocates   *)
(* or receives, and writes to the standard logger when debug is set        *)
(***************************************************************************)
\* the week of TestFormatConsecutiveDays
TestWeek ==
  [i \in 0..6 |->
     IF i \in {Monday, Tuesday, Wednesday, Thursday, Friday}
     THEN [Day |-> i, Ranges |-> << [Start |-> "09:00", End |-> "17:00"] >>, Closed |-> FALSE]
     ELSE [Day |-> i, Ranges |-> <<>>, Closed |-> TRUE]]

\* a week whose Monday holds two ranges, the later one first
LateFirstWeek ==
  [TestWeek EXCEPT ![Monday].Ranges =
     << [Start |-> "15:00", End |-> "18:00"], [Start |-> "08:00", End |-> "13:00"] >>]

\* the calls the goroutines are given: Parse on a text, Format on a week
\* that the caller built for this call
ConcurrentCalls ==
  { [idleCall EXCEPT !.op = "Parse", !.pc = "start", !.rawText = text, !.debug = dbg] :
      text \in {"monday 9:00-17:00", "sabadomingo 9:00-10:00", "Martes cerrado"},
      dbg \in BOOLEAN }
  \cup
  { [idleCall EXCEPT !.op = "Format", !.pc = "start", !.arg = ws, !.debug = dbg] :
      ws \in {TestWeek, LateFirstWeek}, dbg \in BOOLEAN }

\* variant: the WeekSchedule is one package-level object that every call
\* of Parse fills in
newScheduleShared(g) == 1

\* the address of the object that &WeekSchedule{} allocates in the call of
\* goroutine g: a fresh object with every call
newSchedule(g) == g

\* the address of the object that the caller built for the Format call of
\* goroutine g
receiver(g) == 2 + g

\* go Parse(text, dbg) or go ws.Format(dbg): the receiver of Format is the
\* object the caller built
GoCall ==
  \E g \in Goroutines :
    /\ goroutines[g].pc = "idle"
    /\ \E call \in ConcurrentCalls :
         /\ goroutines' =
              [goroutines EXCEPT
                 ![g] = IF call.op = "Format" THEN [call EXCEPT !.schedule = receiver(g)] ELSE call]
         /\ heap' = IF call.op = "Format" THEN [heap EXCEPT ![receiver(g)] = call.arg] ELSE heap
    /\ UNCHANGED logLines
    /\ UNCHANGED <<scheduleVars, normalizerVars, resolverVars, formatGroupVars, mainVars>>

\* Parse, to the end of the loop "Initialize all days"
ParseInitialize ==
  \E g \in Goroutines :
    LET self == goroutines[g]
        schedule_ == newSchedule(g)
    IN  /\ self.op = "Parse" /\ self.pc = "start"
        /\ heap' = [heap EXCEPT ![schedule_] = initialSchedule]
        /\ goroutines' = [goroutines EXCEPT ![g].schedule = schedule_, ![g].pc = "normalize"]
        /\ logLines' = logLines + (IF self.debug THEN 2 ELSE 0)
        /\ UNCHANGED <<scheduleVars, normalizerVars, resolverVars, formatGroupVars, mainVars>>

\* normalized := normalizeText(rawText, debug)
ParseNormalize ==
  \E g \in Goroutines :
    LET self == goroutines[g]
    IN  /\ self.op = "Parse" /\ self.pc = "normalize"
        /\ \E n \in normalizeText(self.rawText) :
             goroutines' = [goroutines EXCEPT ![g].normalized = n, ![g].pc = "scan"]
        /\ logLines' = logLines + (IF self.debug THEN 3 ELSE 0)
        /\ UNCHANGED heap
        /\ UNCHANGED <<scheduleVars, normalizerVars, resolverVars, formatGroupVars, mainVars>>

\* parsed := parseScheduleText(normalized, debug)
ParseScan ==
  \E g \in Goroutines :
    LET self == goroutines[g]
    IN  /\ self.op = "Parse" /\ self.pc = "scan"
        /\ goroutines' = [goroutines EXCEPT ![g].parsed = parseScheduleText(self.normalized),
                                            ![g].pc = "populate"]
        /\ logLines' = logLines
                         + (IF self.debug THEN 1 + SumDayLogLines(self.normalized, 1) ELSE 0)
        /\ UNCHANGED heap
        /\ UNCHANGED <<scheduleVars, normalizerVars, resolverVars, formatGroupVars, mainVars>>

\* the loop "Populate schedule", on the object behind the local schedule
ParsePopulate ==
  \E g \in Goroutines :
    LET self == goroutines[g]
    IN  /\ self.op = "Parse" /\ self.pc = "populate"
        /\ heap' = [heap EXCEPT ![self.schedule] = populate(heap[self.schedule], self.parsed)]
        /\ goroutines' = [goroutines EXCEPT ![g].pc = "return"]
        /\ logLines' = logLines + (IF self.debug THEN Cardinality(DOMAIN self.parsed) ELSE 0)
        /\ UNCHANGED <<scheduleVars, normalizerVars, resolverVars, formatGroupVars, mainVars>>

\* return schedule, nil: the caller reads the object behind the pointer
ParseReturn ==
  \E g \in Goroutines :
    LET self == goroutines[g]
    IN  /\ self.op = "Parse" /\ self.pc = "return"
        /\ goroutines' = [goroutines EXCEPT ![g].ws = heap[self.schedule], ![g].pc = "done"]
        /\ logLines' = logLines + (IF self.debug THEN 1 ELSE 0)
        /\ UNCHANGED heap
        /\ UNCHANGED <<scheduleVars, normalizerVars, resolverVars, formatGroupVars, mainVars>>

\* groups := ws.groupConsecutiveDays(debug)
FormatGroups ==
  \E g \in Goroutines :
    LET self == goroutines[g]
        groups == groupConsecutiveDays(heap[self.schedule])
    IN  /\ self.op = "Format" /\ self.pc = "start"
        /\ goroutines' = [goroutines EXCEPT ![g].groups = groups, ![g].pc = "parts"]
        /\ logLines' = logLines + (IF self.debug THEN 1 + Len(groups) ELSE 0)
        /\ UNCHANGED heap
        /\ UNCHANGED <<scheduleVars, normalizerVars, resolverVars, formatGroupVars, mainVars>>

\* the loop over the groups: parts = append(parts, formatGroup(group, debug))
FormatParts ==
  \E g \in Goroutines :
    LET self == goroutines[g]
    IN  /\ self.op = "Format" /\ self.pc = "parts"
        /\ goroutines' =
             [goroutines EXCEPT ![g].parts = [k \in 1..Len(self.groups) |-> formatGroup(self.groups[k])],
                                ![g].pc = "join"]
        /\ heap' = [heap EXCEPT ![self.schedule] = scheduleAfterFormat(heap[self.schedule])]
        /\ UNCHANGED logLines
        /\ UNCHANGED <<scheduleVars, normalizerVars, resolverVars, formatGroupVars, mainVars>>

\* result := strings.Join(parts, "; "); return result
FormatReturn ==
  \E g \in Goroutines :
    LET self == goroutines[g]
    IN  /\ self.op = "Format" /\ self.pc = "join"
        /\ goroutines' = [goroutines EXCEPT ![g].str = Join(self.parts, "; "), ![g].pc = "done"]
        /\ logLines' = logLines + (IF self.debug THEN 2 ELSE 0)
        /\ UNCHANGED heap
        /\ UNCHANGED <<scheduleVars, normalizerVars, resolverVars, formatGroupVars, mainVars>>

NextConcurrent ==
  \/ GoCall
  \/ ParseInitialize
  \/ ParseNormalize
  \/ ParseScan
  \/ ParsePopulate
  \/ ParseReturn
  \/ FormatGroups
  \/ FormatParts
  \/ FormatReturn

SpecConcurrent == Init /\ [][NextConcurrent]_vars

(***************************************************************************)
(* Package urlnormalizer (src/urlnormalizer/normalizer.go): Normalize,     *)
(* followRedirects, extractFromSearchPage. The network and the headless    *)
(* browser are the environment: what they answer is chosen freely          *)
(***************************************************************************)
\* strings.HasPrefix
HasPrefix(str, prefix) == Len(str) >= Len(prefix) /\ Slice(str, 0, Len(prefix)) = prefix

\* the part of str before the first occurrence of sep, str when there is none
Before(str, sep) == IF Index(str, sep) = -1 THEN str ELSE Slice(str, 0, Index(str, sep))

\* url.Parse fails on the texts of the model that begin with a colon
\* ("missing protocol scheme")
urlParseFails(rawURL) == HasPrefix(rawURL, ":")

\* url.Parse(rawURL).Path for scheme://host/path?query#fragment with no
\* escapes in the path
URLPath(rawURL) ==
  LET noQuery == Before(Before(rawURL, "#"), "?")
      k == Index(noQuery, "://")
      rest == Slice(noQuery, k + 3, Len(noQuery))
  IN  IF k = -1 THEN noQuery
      ELSE IF Index(rest, "/") = -1 THEN ""
      ELSE Slice(rest, Index(rest, "/"), Len(rest))

\* url.Parse(rawURL).RawQuery
RawQuery(rawURL) ==
  LET noFragment == Before(rawURL, "#")
      k == Index(noFragment, "?")
  IN  IF k = -1 THEN "" ELSE Slice(noFragment, k + 1, Len(noFragment))

\* url.QueryUnescape, on the escapes that occur in the URLs of the model
QueryUnescape(v) == ReplaceAll(ReplaceAll(ReplaceAll(v, "+", " "), "%3A", ":"), "%2F", "/")

\* u.Query().Get(key): the value of the first pair of the query with the key
RECURSIVE QueryGet(_, _)
QueryGet(query, key) ==
  IF query = "" THEN ""
  ELSE LET amp == Index(query, "&")
           pair == IF amp = -1 THEN query ELSE Slice(query, 0, amp)
           rest == IF amp = -1 THEN "" ELSE Slice(query, amp + 1, Len(query))
           eq == Index(pair, "=")
           k == IF eq = -1 THEN pair ELSE Slice(pair, 0, eq)
           v == IF eq = -1 THEN "" ELSE Slice(pair, eq + 1, Len(pair))
       IN  IF QueryUnescape(k) = key THEN QueryUnescape(v) ELSE QueryGet(rest, key)

\* what followRedirects returns when the last response came from landing
followRedirectsReturn(landing) ==
  IF Contains(landing, "consent.google.com")
  THEN IF urlParseFails(landing) THEN landing
       ELSE IF QueryGet(RawQuery(landing), "continue") # ""
            THEN QueryGet(RawQuery(landing), "continue")
            ELSE landing
  ELSE landing

\* makeAbsoluteURL
makeAbsoluteURL(urlStr) ==
  IF HasPrefix(urlStr, "/") THEN "https://www.google.com" \o urlStr ELSE urlStr

\* variant: the check looks for another path than the one Google uses
isCaptchaPageOtherPath(pageURL) == Contains(pageURL, "/captcha/")

\* the check for CAPTCHA/bot detection
isCaptchaPage(pageURL) == Contains(pageURL, "/sorry/")

\* the URLs handed to Normalize
InputURLs ==
  { "https://share.google/w4UZTre3NvPyC3b3Q",
    "https://www.google.com/maps/place/Cafe/@40.4,-3.7,17z",
    "https://maps.google.com/?cid=123" }

SearchPageURL == "https://www.google.com/search?kgmid=/g/1abc&q=Cafe"

SorryPageURL == "https://www.google.com/sorry/index?continue=" \o SearchPageURL

\* the URLs of the last response of client.Do, besides the input URL itself
Landings ==
  { SearchPageURL,
    "https://www.google.com/maps/place/Cafe/@40.4,-3.7,17z",
    "https://maps.google.com/maps/place/Cafe",
    "https://www.google.com/maps/search/Cafe",
    "https://consent.google.com/m?gl=ES&continue=https%3A%2F%2Fwww.google.com%2Fmaps%2Fplace%2FCafe",
    "https://consent.google.com/m?gl=ES",
    "https://consent.google.com/m?continue=%3Abad" }

\* what chromedp.Run gives for Navigate, Title and Location: an error, or
\* the title and the URL of the page that was loaded
NavigateOutcomes(searchURL) ==
  { [err |-> "context deadline exceeded", title |-> "", url |-> ""],
    [err |-> "nil", title |-> "Cafe - Google Search", url |-> searchURL],
    [err |-> "nil", title |-> "Sorry...", url |-> SorryPageURL] }

\* what chromedp.Run gives for AttributeValue: an error, or the value of
\* the attribute, which may be empty
AttributeOutcomes ==
  { [err |-> "context deadline exceeded", value |-> ""],
    [err |-> "nil", value |-> ""],
    [err |-> "nil", value |-> "/maps/place/Cafe/data=!4m2!3m1!1s0xd0:0x1"],
    [err |-> "nil", value |-> "https://www.google.com/maps/place/Cafe"] }

\* variant: a strategy succeeds whenever chromedp.Run gave no error, the
\* value of the attribute may be empty
searchAttemptAnyValue(method, out) ==
  IF out.err = "nil"
  THEN [Method |-> method, Success |-> TRUE, Value |-> out.value, Error |-> "nil"]
  ELSE [Method |-> method, Success |-> FALSE, Value |-> "", Error |-> out.err]

\* the SearchAttempt that a strategy records for the outcome out
searchAttempt(method, out) ==
  IF out.err = "nil" /\ out.value # ""
  THEN [Method |-> method, Success |-> TRUE, Value |-> out.value, Error |-> "nil"]
  ELSE [Method |-> method, Success |-> FALSE, Value |-> "", Error |-> out.err]

\* result := normalizer.Normalize(inputURL), to the call of followRedirects
NormalizeCall ==
  /\ normPc = "idle"
  /\ \E url \in InputURLs :
       /\ inputURL' = url
       /\ result' = newResult(url)
  /\ normPc' = "followRedirects"
  /\ UNCHANGED browserStarted
  /\ UNCHANGED <<scheduleVars, concurrentVars, resolverVars, formatGroupVars, mainVars>>

\* Step 1: finalURL, err := n.followRedirects(inputURL)
FollowRedirects ==
  /\ normPc = "followRedirects"
  /\ \/ /\ result' = [result EXCEPT !.Error = "failed to follow redirects"]
        /\ normPc' = "returned"
     \/ \E landing \in Landings \cup {inputURL} :
          /\ result' = [result EXCEPT !.DebugInfo.RedirectedURL = followRedirectsReturn(landing)]
          /\ normPc' = "detect"
  /\ UNCHANGED <<inputURL, browserStarted>>
  /\ UNCHANGED <<scheduleVars, concurrentVars, resolverVars, formatGroupVars, mainVars>>

\* Step 2: url.Parse and the three cases, up to the call of
\* extractFromSearchPage
DetectType ==
  /\ normPc = "detect"
  /\ LET finalURL == result.DebugInfo.RedirectedURL
     IN  IF urlParseFails(finalURL)
         THEN /\ result' = [result EXCEPT !.Error = "failed to parse URL"]
              /\ normPc' = "returned"
         ELSE IF Contains(URLPath(finalURL), "/maps/place/")
         THEN /\ result' = [result EXCEPT !.NormalizedURL = finalURL,
                                          !.URLType = "direct",
                                          !.Success = TRUE,
                                          !.DebugInfo.DetectedType = "maps/place (direct)"]
              /\ normPc' = "returned"
         ELSE IF Contains(URLPath(finalURL), "/search")
         THEN /\ result' = [result EXCEPT !.DebugInfo.DetectedType = "search page"]
              /\ normPc' = "navigate"
         ELSE /\ result' = [result EXCEPT !.Error = "unknown Google Maps URL type",
                                          !.DebugInfo.DetectedType = "unknown"]
              /\ normPc' = "returned"
  /\ UNCHANGED <<inputURL, browserStarted>>
  /\ UNCHANGED <<scheduleVars, concurrentVars, resolverVars, formatGroupVars, mainVars>>

\* extractFromSearchPage: the browser is started and loads the page
Navigate ==
  /\ normPc = "navigate"
  /\ browserStarted' = TRUE
  /\ \E out \in NavigateOutcomes(result.DebugInfo.RedirectedURL) :
       IF out.err # "nil"
       THEN /\ result' = [result EXCEPT !.Error = "failed to navigate"]
            /\ normPc' = "returned"
       ELSE /\ result' = [result EXCEPT !.DebugInfo.PageTitle = out.title,
                                        !.DebugInfo.PageURL = out.url]
            /\ normPc' = "captcha"
  /\ UNCHANGED inputURL
  /\ UNCHANGED <<scheduleVars, concurrentVars, resolverVars, formatGroupVars, mainVars>>

\* Check for CAPTCHA/bot detection
CheckCaptcha ==
  /\ normPc = "captcha"
  /\ IF isCaptchaPage(result.DebugInfo.PageURL)
     THEN /\ result' = [result EXCEPT !.DebugInfo.CaptchaDetected = TRUE,
                                      !.Error = "Google blocked automated access"]
          /\ normPc' = "returned"
     ELSE /\ normPc' = "strategy1"
          /\ UNCHANGED result
  /\ UNCHANGED <<inputURL, browserStarted>>
  /\ UNCHANGED <<scheduleVars, concurrentVars, resolverVars, formatGroupVars, mainVars>>

\* Strategy 1: Extract href from address link
ExtractHrefAddress ==
  /\ normPc = "strategy1"
  /\ \E out \in AttributeOutcomes :
       LET attempt1 == searchAttempt("extract-href-address", out)
           attempts == Append(result.DebugInfo.SearchAttempts, attempt1)
       IN  IF attempt1.Success
           THEN /\ result' = [result EXCEPT !.DebugInfo.SearchAttempts = attempts,
                                            !.NormalizedURL = makeAbsoluteURL(out.value),
                                            !.URLType = "search->place",
                                            !.Success = TRUE]
                /\ normPc' = "returned"
           ELSE /\ result' = [result EXCEPT !.DebugInfo.SearchAttempts = attempts]
                /\ normPc' = "strategy2"
  /\ UNCHANGED <<inputURL, browserStarted>>
  /\ UNCHANGED <<scheduleVars, concurrentVars, resolverVars, formatGroupVars, mainVars>>

\* Strategy 2: Extract data-url attribute, and "All strategies failed"
ExtractDataURL ==
  /\ normPc = "strategy2"
  /\ \E out \in AttributeOutcomes :
       LET attempt2 == searchAttempt("extract-data-url", out)
           attempts == Append(result.DebugInfo.SearchAttempts, attempt2)
       IN  IF attempt2.Success
           THEN result' = [result EXCEPT !.DebugInfo.SearchAttempts = attempts,
                                        !.NormalizedURL = makeAbsoluteURL(out.value),
                                        !.URLType = "search->place",
                                        !.Success = TRUE]
           ELSE result' = [result EXCEPT !.DebugInfo.SearchAttempts = attempts,
                                        !.Error = "failed to extract maps/place link"]
  /\ normPc' = "returned"
  /\ UNCHANGED <<inputURL, browserStarted>>
  /\ UNCHANGED <<scheduleVars, concurrentVars, resolverVars, formatGroupVars, mainVars>>

NextNormalize ==
  \/ NormalizeCall
  \/ FollowRedirects
  \/ DetectType
  \/ Navigate
  \/ CheckCaptcha
  \/ ExtractHrefAddress
  \/ ExtractDataURL

SpecNormalize == Init /\ [][NextNormalize]_vars

(***************************************************************************)
(* ResolveRedirect (redirect_resolver.go).  The server is the environment: *)
(* what it answers to a request is chosen freely                           *)
(***************************************************************************)
\* the limit of CheckRedirect: len(via) >= 10
MaxRedirects == 10

\* the calls of ResolveRedirect the model lets one resolution make
MaxCalls == 12

\* the URLs ResolveRedirect is called with
ResolveInputs == {"https://maps.app.goo.gl/abc", "https://share.google/xyz"}

PlaceURL == "https://www.google.com/maps/place/Cafe"

\* the Location headers of the server's 301/302 answers
Locations == ResolveInputs \cup {PlaceURL}

\* scheme and host of an https URL
Origin(u) ==
  LET rest == Slice(u, Len("https://"), Len(u))
  IN  IF Index(rest, "/") = -1 THEN u
      ELSE Slice(u, 0, Len("https://") + Index(rest, "/"))

\* base.ResolveReference(rel).String() for a reference with a scheme and for
\* a reference that is an absolute path
ResolveReference(base, rel) ==
  IF Contains(rel, "://") THEN rel ELSE Origin(base) \o rel

\* "Handle relative URLs" of the meta refresh and of the window.location
\* branch
handleRelative(finalURL, redirectURL) ==
  IF ~HasPrefix(redirectURL, "http")
  THEN ResolveReference(finalURL, redirectURL)
  ELSE redirectURL

\* the two replacements of the "var url" branch
unescapeGoogle(redirectURL) ==
  ReplaceAll(ReplaceAll(redirectURL, "\\x3d", "="), "\\x26", "&")

\* a body: the first submatch of each of the three regular expressions,
\* "" when the expression does not match
Body(meta, js, google) ==
  [metaRefresh |-> meta, jsRedirect |-> js, googleRedirect |-> google]

Bodies ==
  { Body("", "", ""),
    Body(PlaceURL, "", ""),
    Body("https://maps.app.goo.gl/abc", "", ""),
    Body("/maps/place/Cafe", "", ""),
    Body("", "https://share.google/xyz", ""),
    Body("", "/maps/place/Cafe", ""),
    Body("", "", "https://www.google.com/maps?q\\x3dCafe\\x26hl\\x3den"),
    Body("", "", "/url?q\\x3dCafe"),
    Body(PlaceURL, "https://share.google/xyz", "/url?q\\x3dCafe") }

\* the status codes of the responses client.Do hands back
StatusCodes == {200, 301, 302, 403, 429, 404}

\* the responses client.Do hands back: status code, whether Content-Type
\* holds "text/html", and the body
Responses == [StatusCode : StatusCodes, html : BOOLEAN, body : Bodies]

\* the URL the body sends ResolveRedirect to, "" when it sends it nowhere:
\* meta refresh first, then window.location, then "var url" when it starts
\* with "http" after the replacements
bodyRedirect(resp, finalURL) ==
  IF ~resp.html THEN ""
  ELSE IF resp.body.metaRefresh # ""
    THEN handleRelative(finalURL, resp.body.metaRefresh)
  ELSE IF resp.body.jsRedirect # ""
    THEN handleRelative(finalURL, resp.body.jsRedirect)
  ELSE IF /\ resp.body.googleRedirect # ""
          /\ HasPrefix(unescapeGoogle(resp.body.googleRedirect), "http")
    THEN unescapeGoogle(resp.body.googleRedirect)
  ELSE ""

\* ResolveRedirect(inputURL) is called: the client is built and client.Do
\* sends the first request
ResolveCall ==
  /\ resolvePc = "idle"
  /\ \E url \in ResolveInputs :
       /\ requestURL' = url
       /\ via' = 1
       /\ calls' = 1
       /\ resolvePc' = "do"
  /\ UNCHANGED <<followed, resolved>>
  /\ UNCHANGED <<scheduleVars, concurrentVars, normalizerVars, formatGroupVars, mainVars>>

\* inside client.Do the server answers 301/302 with a Location header:
\* CheckRedirect refuses when len(via) >= 10, and client.Do returns the
\* error; otherwise the client sends the next request
HTTPRedirect ==
  /\ resolvePc = "do"
  /\ \E location \in Locations :
       IF via >= MaxRedirects
       THEN /\ resolved' = [url |-> "", err |-> "request failed"]
            /\ resolvePc' = "returned"
            /\ UNCHANGED <<requestURL, via, followed>>
       ELSE /\ requestURL' = location
            /\ via' = via + 1
            /\ followed' = followed + 1
            /\ UNCHANGED <<resolvePc, resolved>>
  /\ UNCHANGED calls
  /\ UNCHANGED <<scheduleVars, concurrentVars, normalizerVars, formatGroupVars, mainVars>>

\* client.Do returns an error of the network (no answer, timeout)
RequestFails ==
  /\ resolvePc = "do"
  /\ resolved' = [url |-> "", err |-> "request failed"]
  /\ resolvePc' = "returned"
  /\ UNCHANGED <<requestURL, via, calls, followed>>
  /\ UNCHANGED <<scheduleVars, concurrentVars, normalizerVars, formatGroupVars, mainVars>>

\* client.Do returns a response and ResolveRedirect runs to its return or
\* to the call of itself: status checks, finalURL, the three checks of an
\* HTML body.  The call of itself builds a new client and sends the first
\* request of that client; what it returns is returned unchanged
Respond ==
  /\ resolvePc = "do"
  /\ \E resp \in Responses :
       LET finalURL == requestURL
           redirectURL == bodyRedirect(resp, finalURL)
       IN  IF resp.StatusCode = 403 \/ resp.StatusCode = 429
           THEN /\ resolved' = [url |-> "", err |-> "access denied"]
                /\ resolvePc' = "returned"
                /\ UNCHANGED <<requestURL, via, calls, followed>>
           ELSE IF resp.StatusCode # 200 /\ resp.StatusCode # 301 /\ resp.StatusCode # 302
           THEN /\ resolved' = [url |-> "", err |-> "unexpected status code"]
                /\ resolvePc' = "returned"
                /\ UNCHANGED <<requestURL, via, calls, followed>>
           ELSE IF redirectURL # ""
           THEN /\ calls < MaxCalls
                /\ requestURL' = redirectURL
                /\ via' = 1
                /\ calls' = calls + 1
                /\ followed' = followed + 1
                /\ UNCHANGED <<resolvePc, resolved>>
           ELSE /\ resolved' = [url |-> finalURL, err |-> "nil"]
                /\ resolvePc' = "returned"
                /\ UNCHANGED <<requestURL, via, calls, followed>>
  /\ UNCHANGED <<scheduleVars, concurrentVars, normalizerVars, formatGroupVars, mainVars>>

NextResolve ==
  \/ ResolveCall
  \/ HTTPRedirect
  \/ RequestFails
  \/ Respond

SpecResolve == Init /\ [][NextResolve]_vars

(***************************************************************************)
(* formatGroup on its own, range lists longer than maxInsertion included   *)
(***************************************************************************)
\* the ranges of the short lists: two of them start at the same time
SortPool ==
  { [Start |-> "09:00", End |-> "17:00"],
    [Start |-> "09:00", End |-> "12:00"],
    [Start |-> "08:00", End |-> "13:00"] }

MaxSortLen == 3

RECURSIVE SortLists(_)
SortLists(n) ==
  IF n = 0 THEN {<<>>}
  ELSE LET shorter == SortLists(n - 1)
       IN  shorter \cup { Append(rs, r) : rs \in shorter, r \in SortPool }

\* a number below 100 written with two digits
TwoDigits(n) == CharAt("0123456789", n \div 10) \o CharAt("0123456789", n % 10)

\* a list one longer than maxInsertion: two ranges that start at 09:00, then
\* ranges that start at 10:00, 11:00, ... one hour each
LongList ==
  [k \in 1..(maxInsertion + 1) |->
     IF k = 1 THEN [Start |-> "09:00", End |-> "17:00"]
     ELSE IF k = 2 THEN [Start |-> "09:00", End |-> "12:00"]
     ELSE [Start |-> TwoDigits(7 + k) \o ":00", End |-> TwoDigits(8 + k) \o ":00"]]

\* the groups formatGroup is called with
SortGroups ==
  [StartDay : {Monday}, EndDay : {Monday, Friday},
   Ranges : SortLists(MaxSortLen) \cup {LongList}, Closed : BOOLEAN]

\* formatGroup(g, debug) is called: Closed or no ranges returns at once,
\* else the slice ranges is made and g.Ranges copied into it
FormatGroupCall ==
  /\ fgPc = "idle"
  /\ \E g \in SortGroups :
       /\ fgGroup' = g
       /\ IF g.Closed \/ Len(g.Ranges) = 0
          THEN /\ fgResult' = formatGroupSorted(g, <<>>)
               /\ fgPc' = "returned"
               /\ UNCHANGED fgRanges
          ELSE /\ fgRanges' = g.Ranges
               /\ fgPc' = "sort"
               /\ UNCHANGED fgResult
  /\ UNCHANGED <<scheduleVars, concurrentVars, normalizerVars, resolverVars, mainVars>>

\* sort.Slice(ranges, less by Start)
SortRanges ==
  /\ fgPc = "sort"
  /\ \E sorted \in sortSliceOutcomes(fgRanges) :
       /\ fgRanges' = sorted
       /\ fgPc' = "sorted"
  /\ UNCHANGED <<fgGroup, fgResult>>
  /\ UNCHANGED <<scheduleVars, concurrentVars, normalizerVars, resolverVars, mainVars>>

\* rangeParts is filled from ranges and the string is returned
FormatGroupReturn ==
  /\ fgPc = "sorted"
  /\ fgResult' = formatGroupSorted(fgGroup, fgRanges)
  /\ fgPc' = "returned"
  /\ UNCHANGED <<fgGroup, fgRanges>>
  /\ UNCHANGED <<scheduleVars, concurrentVars, normalizerVars, resolverVars, mainVars>>

NextFormatGroup ==
  \/ FormatGroupCall
  \/ SortRanges
  \/ FormatGroupReturn

SpecFormatGroup == Init /\ [][NextFormatGroup]_vars

(***************************************************************************)
(* main: URL validation, scraping, Parse and Format of the hours, vCard.   *)
(* The command line and what the scraper finds are the environment         *)
(***************************************************************************)
\* strings.HasSuffix
HasSuffix(str, suffix) ==
  Len(str) >= Len(suffix) /\ Slice(str, Len(str) - Len(suffix), Len(str)) = suffix

\* u.Scheme of url.Parse: the text before the first ":" in lower case, when
\* no "/" stands before that ":"
URLScheme(rawURL) ==
  LET c == Index(rawURL, ":")
  IN  IF c <= 0 \/ Contains(Slice(rawURL, 0, c), "/") THEN ""
      ELSE ToLower(Slice(rawURL, 0, c))

\* u.Host of url.Parse: behind "scheme://" up to the first "/", "?" or "#",
\* without the user information that ends at "@"; the port stays
URLHost(rawURL) ==
  LET c == Index(rawURL, ":")
      rest == Slice(rawURL, c + 3, Len(rawURL))
      authority == Before(Before(Before(rest, "/"), "?"), "#")
      at == Index(authority, "@")
  IN  IF URLScheme(rawURL) = "" \/ Slice(rawURL, c, c + 3) # "://" THEN ""
      ELSE IF at = -1 THEN authority
      ELSE Slice(authority, at + 1, Len(authority))

\* the slice literal validDomains
validDomains == <<"share.google", "maps.google.com", "www.google.com", "google.com", "goo.gl">>

\* isValidGoogleMapsURL
isValidGoogleMapsURL(rawURL) ==
  IF urlParseFails(rawURL) THEN FALSE
  ELSE IF URLScheme(rawURL) # "http" /\ URLScheme(rawURL) # "https" THEN FALSE
  ELSE \E k \in 1..Len(validDomains) : HasSuffix(URLHost(rawURL), validDomains[k])

\* the command lines: no argument, or one URL
MainArgs ==
  { <<>> } \cup
  { <<u>> : u \in
      { "https://share.google/w4UZTre3NvPyC3b3Q",
        "https://maps.google.com/?cid=123",
        "https://www.google.com/maps/place/Cafe",
        "http://google.com/maps",
        "https://goo.gl/maps/abc",
        "https://maps.app.goo.gl/abc",
        "HTTPS://www.google.com/maps",
        "ftp://maps.google.com/x",
        "maps.google.com/place",
        ":bad",
        "https://example.com/maps.google.com",
        "https://google.com@example.com/",
        "https://google.com:8080/maps",
        "https://evilgoogle.com/maps",
        "https://notgoo.gl/x" } }

\* what scraper.Extract can find
Businesses ==
  [Name : {"", "Cafe/Bar"},
   Hours : {"", "Open 24 hours", "Mon-Sun Closed", "monday 9:00-17:00",
            "sabadomingo 9:00-10:00", EnglishInput}]

\* variant: the raw hours text is used whatever hoursClean holds
hoursToUseRaw(clean, hours) == hours

\* hoursToUse of generateVCard
hoursToUse(clean, hours) == IF clean = "" THEN hours ELSE clean

\* main up to the validation of the URL
MainCall ==
  /\ mainPc = "idle"
  /\ \E args \in MainArgs :
       IF Len(args) < 1
       THEN /\ mainPc' = "usage"
            /\ UNCHANGED mainURL
       ELSE /\ mainURL' = args[1]
            /\ mainPc' = IF isValidGoogleMapsURL(args[1]) THEN "valid" ELSE "invalid"
  /\ UNCHANGED <<business, parsedSchedule, hoursClean, note, networkUsed>>
  /\ UNCHANGED <<scheduleVars, concurrentVars, normalizerVars, resolverVars, formatGroupVars>>

\* business, err := scraper.Extract(inputURL, nil)
ScraperExtract ==
  /\ mainPc = "valid"
  /\ networkUsed' = TRUE
  /\ \/ /\ mainPc' = "scrape failed"
        /\ UNCHANGED business
     \/ \E b \in Businesses :
          /\ business' = b
          /\ mainPc' = "scraped"
  /\ UNCHANGED <<mainURL, parsedSchedule, hoursClean, note>>
  /\ UNCHANGED <<scheduleVars, concurrentVars, normalizerVars, resolverVars, formatGroupVars>>

\* "Parse schedule (if hours found)": Parse returns a nil error, so the
\* else branch runs
ParseSchedule ==
  /\ mainPc = "scraped"
  /\ IF business.Hours # ""
     THEN \E ws \in ParseReturns(business.Hours, FALSE) :
            /\ parsedSchedule' = ws
            /\ hoursClean' \in FormatReturns(ws, FALSE)
     ELSE UNCHANGED <<parsedSchedule, hoursClean>>
  /\ mainPc' = "parsed"
  /\ UNCHANGED <<mainURL, business, note, networkUsed>>
  /\ UNCHANGED <<scheduleVars, concurrentVars, normalizerVars, resolverVars, formatGroupVars>>

\* the check of the name, generateVCard and the writing of the file
GenerateVCard ==
  /\ mainPc = "parsed"
  /\ IF business.Name = ""
     THEN /\ mainPc' = "no name"
          /\ UNCHANGED note
     ELSE /\ mainPc' = "saved"
          /\ note' = IF hoursToUse(hoursClean, business.Hours) # ""
                     THEN "Hours: " \o hoursToUse(hoursClean, business.Hours)
                     ELSE ""
  /\ UNCHANGED <<mainURL, business, parsedSchedule, hoursClean, networkUsed>>
  /\ UNCHANGED <<scheduleVars, concurrentVars, normalizerVars, resolverVars, formatGroupVars>>

NextMain ==
  \/ MainCall
  \/ ScraperExtract
  \/ ParseSchedule
  \/ GenerateVCard

SpecMain == Init /\ [][NextMain]_vars

(***************************************************************************)
(* Properties                                                              *)
(***************************************************************************)
\* the entry of the schedule for an English day name
DayOf(day) == schedule[dayNameToNumber[day]]

ClosedAndEmpty(d) == d.Closed /\ d.Ranges = <<>>

\* the Spanish names of an English day name
SpanishNames(day) == { e[1] : e \in { x \in dayTranslations : x[2] = day } }

\* the content window of a day that occurs in text, stated from its
\* definition: the text from the end of the first occurrence of the day's
\* name up to the first later position where another day's name begins
Window(text, day) ==
  LET from == Index(text, day) + Len(day)
      stops == { j \in from..Len(text) :
                   \E other \in DaySet \ {day} :
                     j + Len(other) <= Len(text) /\ Slice(text, j, j + Len(other)) = other }
  IN  Slice(text, from, IF stops = {} THEN Len(text) ELSE Min(stops))

\* the window holds at least one interval
HasInterval(w) == \E i \in 0..(Len(w) - 1) : timeRegexAt(w, i) # <<>>

\* a time of exactly five characters, two digits, colon, two digits
IsHHMM(t) ==
  /\ Len(t) = 5
  /\ IsDigit(CharAt(t, 0)) /\ IsDigit(CharAt(t, 1))
  /\ CharAt(t, 2) = ":"
  /\ IsDigit(CharAt(t, 3)) /\ IsDigit(CharAt(t, 4))

\* the time t is the text m of a match, with one zero put before a one-digit
\* hour
Padded(m, t) == Len(t) = 5 /\ (t = m \/ t = "0" \o m)

\* the time t stands in text, as it is or without its leading zero
WrittenIn(text, t) ==
  \/ Contains(text, t)
  \/ CharAt(t, 0) = "0" /\ Contains(text, Slice(t, 1, Len(t)))

\* the segments of a formatted string
RECURSIVE Segments(_)
Segments(str) ==
  LET k == Index(str, "; ")
  IN  IF k = -1 THEN <<str>>
      ELSE <<Slice(str, 0, k)>> \o Segments(Slice(str, k + 2, Len(str)))

TwoRanges == << [Start |-> "08:00", End |-> "13:00"], [Start |-> "15:00", End |-> "18:00"] >>

Weekdays == {Monday, Tuesday, Wednesday, Thursday, Friday}

\* C1: whatever the input, Parse returns a nil error and a schedule of
\* exactly seven entries, entry i being the one of day i
C1_SevenDays ==
  origin = "Parse" =>
    /\ err = "nil"
    /\ DOMAIN schedule = 0..6
    /\ \A i \in 0..6 : schedule[i].Day = i

\* Parse has returned for a text with no recognizable day or interval
C1_Witness ==
  /\ origin = "Parse"
  /\ rawText = "mingo CERRADO"
  /\ schedule[Saturday].Day = Saturday

\* C2 as stated: a day whose English and Spanish names are absent from the raw
\* text, in any letter case, is closed with no ranges
C2_AbsentFromRaw ==
  origin = "Parse" =>
    \A day \in DaySet :
      ( /\ ~Contains(ToLower(rawText), day)
        /\ \A sp \in SpanishNames(day) : ~Contains(ToLower(rawText), sp) )
      => ClosedAndEmpty(DayOf(day))

\* C2 as amended: a day whose English name is absent from the canonical text
\* normalizeText returned is closed with no ranges
C2_AbsentFromCanonical ==
  origin = "Parse" =>
    \A day \in DaySet : ~Contains(normalized, day) => ClosedAndEmpty(DayOf(day))

\* Parse has returned with one day open and another day absent from the text
C2_Witness ==
  /\ origin = "Parse"
  /\ rawText = "monday 9:00-17:00"
  /\ ~DayOf("monday").Closed
  /\ ~Contains(normalized, "tuesday")
  /\ ClosedAndEmpty(DayOf("tuesday"))

\* C3: every execution of Parse on the text at hand returns the schedule that
\* this execution returned, whatever the order of the translation table
C3_Deterministic ==
  origin = "Parse" => \A n \in normalizeText(rawText) : scheduleOf(n) = schedule

\* C4: in a schedule returned by Parse a day is closed exactly when it has no
\* ranges
C4_ClosedIffEmpty ==
  origin = "Parse" => \A i \in 0..6 : schedule[i].Closed <=> (Len(schedule[i].Ranges) = 0)

\* Parse has returned a week with an open day and an explicitly closed day
C4_Witness ==
  /\ origin = "Parse"
  /\ rawText = EnglishInput
  /\ Len(DayOf("monday").Ranges) = 1 /\ ~DayOf("monday").Closed
  /\ DayOf("wednesday").Closed

\* C5: every Start and End returned by Parse is two digits, colon, two
\* digits, and is the time written in the text, with one zero put before a
\* one-digit hour
C5_ZeroPadded ==
  origin = "Parse" =>
    \A i \in 0..6 : \A k \in 1..Len(schedule[i].Ranges) :
      LET r == schedule[i].Ranges[k]
      IN  /\ IsHHMM(r.Start) /\ IsHHMM(r.End)
          /\ WrittenIn(normalized, r.Start) /\ WrittenIn(normalized, r.End)

\* Parse has returned a range with a padded one-digit hour and one with a
\* two-digit hour
C5_Witness ==
  /\ origin = "Parse"
  /\ rawText = "lunes 8:00~13:00 15:00~18:00"
  /\ DayOf("monday").Ranges = TwoRanges

\* C6: a day whose window holds "closed" is closed with no ranges, also when
\* the window holds intervals; a day whose window holds an interval and no
\* "closed" is not closed
C6_ClosedWins ==
  origin = "Parse" =>
    \A day \in DaySet :
      Contains(normalized, day) =>
        LET w == Window(normalized, day)
        IN  /\ Contains(w, "closed") => ClosedAndEmpty(DayOf(day))
            /\ (HasInterval(w) /\ ~Contains(w, "closed")) => ~DayOf(day).Closed

\* Parse has returned for a text whose Tuesday window holds "cerrado" and
\* intervals, between two open days
C6_Witness ==
  /\ origin = "Parse"
  /\ Contains(Window(normalized, "tuesday"), "closed")
  /\ HasInterval(Window(normalized, "tuesday"))
  /\ ClosedAndEmpty(DayOf("tuesday"))
  /\ ~DayOf("monday").Closed
  /\ ~DayOf("thursday").Closed

\* C7: a named day followed by intervals gets exactly those intervals, in text
\* order and padded; a named day whose window holds neither an interval nor
\* "closed" is closed with no ranges; for the Spanish test text Monday to
\* Friday get the two ranges, Saturday and Sunday none
C7_SpanishIntervals ==
  origin = "Parse" =>
    /\ \A day \in DaySet :
         (Contains(normalized, day) /\ ~Contains(Window(normalized, day), "closed")) =>
           LET m == FindAllStringSubmatch(Window(normalized, day))
           IN  /\ Len(DayOf(day).Ranges) = Len(m)
               /\ \A k \in 1..Len(m) :
                    /\ Padded(m[k][1], DayOf(day).Ranges[k].Start)
                    /\ Padded(m[k][2], DayOf(day).Ranges[k].End)
               /\ DayOf(day).Closed = (Len(m) = 0)
    /\ rawText = "lunes 8:00~13:00 15:00~18:00" =>
         DayOf("monday").Ranges = TwoRanges /\ ~DayOf("monday").Closed
    /\ rawText = SpanishInput =>
         /\ \A i \in Weekdays : schedule[i].Ranges = TwoRanges /\ ~schedule[i].Closed
         /\ ClosedAndEmpty(schedule[Saturday])
         /\ ClosedAndEmpty(schedule[Sunday])

\* Parse has returned for the Spanish test text
C7_Witness ==
  /\ origin = "Parse"
  /\ rawText = SpanishInput
  /\ schedule[Monday].Ranges = TwoRanges
  /\ Contains(normalized, "saturday sunday")
  /\ schedule[Saturday].Closed /\ schedule[Sunday].Closed

\* C8: a parsed week whose Monday to Friday have the ranges 8:00-13:00 and
\* 15:00-18:00 and whose Saturday and Sunday have none is formatted as
\* "Mon-Fri 08:00-13:00, 15:00-18:00; Sat-Sun Closed"
C8_Consolidated ==
  ( /\ pc = "formatted"
    /\ origin = "Parse"
    /\ \A i \in Weekdays : schedule[i].Ranges = TwoRanges
    /\ schedule[Saturday].Ranges = <<>>
    /\ schedule[Sunday].Ranges = <<>> )
  => formatted = "Mon-Fri 08:00-13:00, 15:00-18:00; Sat-Sun Closed"

\* Format has returned for the parsed Spanish test text
C8_Witness ==
  /\ pc = "formatted"
  /\ rawText = SpanishInput
  /\ \A i \in Weekdays : schedule[i].Ranges = TwoRanges
  /\ schedule[Saturday].Ranges = <<>>
  /\ Len(Segments(formatted)) = 2

\* C9: a week of seven closed days without ranges is formatted as
\* "Mon-Sun Closed", and Parse of the empty text returns such a week
C9_AllClosed ==
  /\ (pc = "formatted" /\ \A i \in 0..6 : ClosedAndEmpty(schedule[i]))
       => formatted = "Mon-Sun Closed"
  /\ (origin = "Parse" /\ rawText = "")
       => \A i \in 0..6 : ClosedAndEmpty(schedule[i])

\* Format has returned for the schedule parsed from the empty text
C9_Witness ==
  /\ pc = "formatted"
  /\ origin = "Parse"
  /\ rawText = ""
  /\ \A i \in 0..6 : ClosedAndEmpty(schedule[i])
  /\ formatted = "Mon-Sun Closed"

\* the week of C10: Monday to Friday open with one and the same non-empty
\* range list, Saturday and Sunday closed without ranges
WorkingWeek ==
  /\ \A i \in Weekdays :
       /\ ~schedule[i].Closed
       /\ schedule[i].Ranges = schedule[Monday].Ranges
       /\ Len(schedule[i].Ranges) > 0
  /\ ClosedAndEmpty(schedule[Saturday])
  /\ ClosedAndEmpty(schedule[Sunday])

OneDayInput == "monday 9:00-17:00"

NineToFive == << [Start |-> "09:00", End |-> "17:00"] >>

\* C11: for the text "monday 9:00-17:00" Parse returns Monday open with
\* 09:00-17:00 and the six other days closed without ranges, and Format
\* returns the two segments "Mon 09:00-17:00" and "Tue-Sun Closed"; every
\* parsed week whose only open day is Monday is formatted as a Monday
\* segment followed by "Tue-Sun Closed"
C11_OneDay ==
  /\ (origin = "Parse" /\ rawText = OneDayInput) =>
       /\ schedule[Monday] = [Day |-> Monday, Ranges |-> NineToFive, Closed |-> FALSE]
       /\ \A i \in (0..6) \ {Monday} : ClosedAndEmpty(schedule[i])
       /\ (pc = "formatted" => Segments(formatted) = <<"Mon 09:00-17:00", "Tue-Sun Closed">>)
  /\ ( /\ pc = "formatted"
       /\ origin = "Parse"
       /\ ~schedule[Monday].Closed
       /\ \A i \in (0..6) \ {Monday} : ClosedAndEmpty(schedule[i]) ) =>
       LET segs == Segments(formatted)
       IN  /\ Len(segs) = 2
           /\ Slice(segs[1], 0, 4) = "Mon "
           /\ segs[2] = "Tue-Sun Closed"

\* Format has returned for the schedule parsed from "monday 9:00-17:00"
C11_Witness ==
  /\ pc = "formatted"
  /\ origin = "Parse"
  /\ rawText = OneDayInput
  /\ schedule[Monday].Ranges = NineToFive
  /\ formatted = "Mon 09:00-17:00; Tue-Sun Closed"

\* C12: a day followed by "De 8:00 a 13:00" is parsed as the range
\* 08:00-13:00 of that day, the day is not closed, and Format shows
\* "08:00-13:00"
C12_SpanishTimeFormat ==
  (origin = "Parse" /\ rawText = SpanishTimeInput) =>
    /\ DayOf("monday").Ranges = << [Start |-> "08:00", End |-> "13:00"] >>
    /\ ~DayOf("monday").Closed
    /\ (pc = "formatted" => Contains(formatted, "08:00-13:00"))

\* C13: the logging flag never affects a returned value: a call of Parse on
\* the same text with the other flag value returns the schedule this call
\* returned, and a call of Format on the same schedule with the other flag
\* value returns the string this call returned
C13_FlagNeverMatters ==
  /\ (origin = "Parse" /\ pc = "scheduled") =>
       \A other \in ParseReturns(rawText, ~debug) : other = schedule
  /\ pc = "formatted" =>
       \A other \in FormatReturns(schedule, ~debug) : other = formatted

\* C14: normalizeText is idempotent: normalizing the canonical text it
\* returned gives that text again, whatever the order of the translation
\* table
C14_Idempotent ==
  origin = "Parse" => normalizeText(normalized) = {normalized}

\* a range list that is not in the order of its start times
Unsorted == << [Start |-> "09:00", End |-> "17:00"], [Start |-> "08:00", End |-> "13:00"] >>

\* C15: a call of Format leaves the schedule as it was, every day's Day,
\* Closed and Ranges with the order of the ranges, and a call of Format on
\* a schedule that has been formatted before returns the same string again
C15_FormatReadOnly ==
  [][FormatCall => /\ schedule' = schedule
                   /\ (pc = "formatted" => formatted' = formatted)]_vars

\* Format has returned the ranges in sorted order for a week whose Monday
\* holds them unsorted, and Monday still holds them unsorted
C15_Witness ==
  /\ pc = "formatted"
  /\ schedule[Monday].Ranges = Unsorted
  /\ ~schedule[Monday].Closed
  /\ Contains(formatted, "08:00-13:00, 09:00-17:00")

\* the range with the padded times
Range(start, end) == [Start |-> start, End |-> end]

\* C20: a day found in the canonical text whose window holds no "closed"
\* gets the intervals of its window, all of them, in text order, duplicates
\* kept; the window runs from the end of the first occurrence of the day's
\* name to the nearest later occurrence of another day's name, so a further
\* occurrence of the day's own name neither ends the window nor starts a
\* new one
C20_FirstOccurrenceWindow ==
  origin = "Parse" =>
    /\ \A day \in DaySet :
         (Contains(normalized, day) /\ ~Contains(Window(normalized, day), "closed")) =>
           LET m == FindAllStringSubmatch(Window(normalized, day))
           IN  DayOf(day).Ranges =
                 [k \in 1..Len(m) |-> Range(normalizeTime(m[k][1]), normalizeTime(m[k][2]))]
    /\ rawText = RepeatedDayInput =>
         /\ DayOf("monday").Ranges =
              << Range("09:00", "12:00"), Range("14:00", "18:00"), Range("09:00", "12:00") >>
         /\ DayOf("tuesday").Ranges = << Range("10:00", "11:00") >>
    /\ rawText = LateRepeatInput =>
         /\ DayOf("monday").Ranges = << Range("09:00", "12:00") >>
         /\ DayOf("tuesday").Ranges = << Range("10:00", "11:00") >>

\* Parse has returned for a text in which Monday's name recurs inside
\* Monday's window
C20_Witness ==
  /\ origin = "Parse"
  /\ rawText = RepeatedDayInput
  /\ Contains(Window(normalized, "monday"), "monday")
  /\ Len(DayOf("monday").Ranges) = 3
  /\ DayOf("monday").Ranges[1] = DayOf("monday").Ranges[3]

\* C16: under every interleaving a call returns a value that it returns
\* when it runs alone on its input: Parse a schedule that Parse returns for
\* its text, the one for the canonical text this call computed, Format the
\* string that Format returns for its week; and the week a caller handed
\* to Format stays as the caller built it
C16_NoInterference ==
  \A g \in Goroutines :
    LET self == goroutines[g]
    IN  /\ (self.op = "Parse" /\ self.pc = "done") =>
             /\ self.ws \in ParseReturns(self.rawText, self.debug)
             /\ self.ws = scheduleOf(self.normalized)
        /\ (self.op = "Format" /\ self.pc = "done") =>
             self.str \in FormatReturns(self.arg, self.debug)
        /\ self.op = "Format" => heap[self.schedule] = self.arg

\* the call of goroutine 1 has returned its schedule while the call of
\* goroutine 2, on another text, was between its initialisation and its
\* populate loop
C16_Witness ==
  /\ goroutines[1].op = "Parse" /\ goroutines[1].pc = "done"
  /\ goroutines[1].rawText = "monday 9:00-17:00"
  /\ goroutines[1].ws[Monday].Ranges = NineToFive
  /\ goroutines[2].op = "Parse" /\ goroutines[2].pc = "populate"
  /\ goroutines[2].rawText = "Martes cerrado"

\* the attempts recorded so far
Attempts == result.DebugInfo.SearchAttempts

\* the page has been loaded and the CAPTCHA check has run
PastCaptchaCheck ==
  /\ result.DebugInfo.PageURL # ""
  /\ normPc \in {"strategy1", "strategy2", "returned"}

\* C17: on a search page, a loaded page whose URL holds "/sorry/" sets
\* CaptchaDetected and ends the call with an error and no attempt recorded;
\* otherwise "extract-href-address" is tried first and "extract-data-url"
\* only after it failed, the call returns at the first success with the
\* extracted URL made absolute, the attempts are recorded in that order,
\* one for every strategy tried, only the last one can have succeeded, and
\* when both failed the call returns an error with two failed attempts
C17_SearchPageStrategies ==
  /\ (PastCaptchaCheck /\ Contains(result.DebugInfo.PageURL, "/sorry/")) =>
       /\ result.DebugInfo.CaptchaDetected
       /\ normPc = "returned"
       /\ result.Error = "Google blocked automated access"
       /\ ~result.Success
       /\ Attempts = <<>>
  /\ result.DebugInfo.CaptchaDetected => Contains(result.DebugInfo.PageURL, "/sorry/")
  /\ Len(Attempts) <= 2
  /\ Len(Attempts) = (CASE normPc = "strategy1" -> 0
                        [] normPc = "strategy2" -> 1
                        [] OTHER -> Len(Attempts))
  /\ Len(Attempts) >= 1 => Attempts[1].Method = "extract-href-address"
  /\ Len(Attempts) = 2 =>
       /\ Attempts[2].Method = "extract-data-url"
       /\ ~Attempts[1].Success
  /\ \A k \in 1..Len(Attempts) :
       Attempts[k].Success =>
         /\ k = Len(Attempts)
         /\ normPc = "returned"
         /\ result.Success
         /\ result.Error = "nil"
         /\ result.NormalizedURL = makeAbsoluteURL(Attempts[k].Value)
  /\ ( /\ normPc = "returned"
       /\ PastCaptchaCheck
       /\ ~result.DebugInfo.CaptchaDetected ) =>
       /\ Len(Attempts) >= 1
       /\ result.Success = Attempts[Len(Attempts)].Success
       /\ ~result.Success =>
            /\ Len(Attempts) = 2
            /\ result.Error = "failed to extract maps/place link"

\* Normalize has returned the link that the second strategy found after
\* the first had failed
C17_Witness ==
  /\ normPc = "returned"
  /\ Len(Attempts) = 2
  /\ ~Attempts[1].Success
  /\ Attempts[2].Success
  /\ Attempts[2].Value = "/maps/place/Cafe/data=!4m2!3m1!1s0xd0:0x1"
  /\ result.NormalizedURL = "https://www.google.com/maps/place/Cafe/data=!4m2!3m1!1s0xd0:0x1"

\* a URL of one of the two forms the README lists as returned immediately
IsGoogleMapsURL(url) ==
  \/ HasPrefix(url, "https://www.google.com/maps/place/")
  \/ HasPrefix(url, "https://maps.google.com/")

\* C18: when the URL after the redirects is a Google Maps URL,
\* https://www.google.com/maps/place/... or https://maps.google.com/...,
\* Normalize returns Success with that URL as NormalizedURL and has not
\* started the browser
C18_MapsURLsReturnDirectly ==
  (normPc = "returned" /\ IsGoogleMapsURL(result.DebugInfo.RedirectedURL)) =>
    /\ result.Success
    /\ result.Error = "nil"
    /\ result.NormalizedURL = result.DebugInfo.RedirectedURL
    /\ ~browserStarted

\* C19: counting HTTP redirects, meta-refresh redirects and JavaScript
\* redirects together, one resolution never follows more than 10 redirects
C19_AtMostTenRedirects == followed <= MaxRedirects

\* the day names of the segments in display order
DisplayNames == [k \in 1..Len(orderedDays) |-> DayString(orderedDays[k])]

\* the place of a day name in the display order, 0 for any other text
DisplayPos(name) ==
  LET ks == { k \in 1..Len(DisplayNames) : DisplayNames[k] = name }
  IN  IF ks = {} THEN 0 ELSE CHOOSE k \in ks : TRUE

\* the day part of a segment: one day name of three letters, or two joined
\* by a hyphen
DayPart(seg) ==
  IF Len(seg) > 3 /\ CharAt(seg, 3) = "-" THEN Slice(seg, 0, 7) ELSE Slice(seg, 0, 3)

\* the places of the first and of the last day a segment names, 0 when the
\* text is no day name
FirstDay(seg) == DisplayPos(Slice(seg, 0, 3))

LastDay(seg) ==
  IF Len(seg) > 3 /\ CharAt(seg, 3) = "-" THEN DisplayPos(Slice(seg, 4, 7))
  ELSE FirstDay(seg)

\* C21: for every WeekSchedule, Format returns a non-empty string of 1 to 7
\* segments whose day parts partition Monday .. Sunday into contiguous runs
\* in display order: the first segment starts at Monday, every segment
\* starts at the day after the end of the segment before it, the last
\* segment ends at Sunday, and no segment runs from a later day to an
\* earlier one
C21_Partition ==
  pc = "formatted" =>
    LET segs == Segments(formatted)
    IN  /\ formatted # ""
        /\ Len(segs) >= 1 /\ Len(segs) <= 7
        /\ \A k \in 1..Len(segs) :
             /\ FirstDay(segs[k]) >= 1
             /\ LastDay(segs[k]) >= FirstDay(segs[k])
             /\ Len(segs[k]) > Len(DayPart(segs[k])) + 1
             /\ CharAt(segs[k], Len(DayPart(segs[k]))) = " "
        /\ FirstDay(segs[1]) = 1
        /\ LastDay(segs[Len(segs)]) = Len(orderedDays)
        /\ \A k \in 1..(Len(segs) - 1) : FirstDay(segs[k + 1]) = LastDay(segs[k]) + 1

\* Format has returned five segments for a hand-built week whose Day fields
\* are not the indices and whose open days without ranges read "Closed"
C21_Witness ==
  /\ pc = "formatted"
  /\ schedule \in MisnumberedWeeks
  /\ schedule # zeroSchedule
  /\ Len(Segments(formatted)) = 5
  /\ Segments(formatted)[4] = "Thu-Fri Closed"

\* the days at the places k and k + 1 of the display order are named by one
\* and the same segment of segs
SameSegment(segs, k) ==
  \E j \in 1..Len(segs) : FirstDay(segs[j]) <= k /\ k + 1 <= LastDay(segs[j])

\* the hours part of the segment of segs that names the day at place k
HoursPart(segs, k) ==
  LET js == { j \in 1..Len(segs) : FirstDay(segs[j]) <= k /\ k <= LastDay(segs[j]) }
      seg == segs[CHOOSE j \in js : TRUE]
  IN  IF js = {} THEN "" ELSE Slice(seg, Len(DayPart(seg)) + 1, Len(seg))

RangeSet(rs) == { rs[i] : i \in 1..Len(rs) }

\* no two ranges of rs have the same Start
DistinctStarts(rs) ==
  \A i, j \in 1..Len(rs) : rs[i].Start = rs[j].Start => i = j

\* two adjacent open days hold the same set of ranges in a different order
Reordered(a, b) ==
  /\ ~a.Closed /\ ~b.Closed
  /\ Len(a.Ranges) = Len(b.Ranges)
  /\ RangeSet(a.Ranges) = RangeSet(b.Ranges)
  /\ a.Ranges # b.Ranges

\* two days adjacent in display order are in one segment exactly when they
\* have the same Closed flag, the same number of ranges and equal ranges
\* position by position
GroupedIffEqual(segs) ==
  \A k \in 1..(Len(orderedDays) - 1) :
    LET a == schedule[orderedDays[k]]
        b == schedule[orderedDays[k + 1]]
    IN  SameSegment(segs, k) <=>
          /\ a.Closed = b.Closed
          /\ Len(a.Ranges) = Len(b.Ranges)
          /\ \A i \in 1..Len(a.Ranges) : a.Ranges[i] = b.Ranges[i]

DigitValue(c) == Index("0123456789", c)

\* hour*60+minute of a time HH:MM
MinuteOfDay(t) ==
  (10 * DigitValue(CharAt(t, 0)) + DigitValue(CharAt(t, 1))) * 60
    + 10 * DigitValue(CharAt(t, 3)) + DigitValue(CharAt(t, 4))

\* the hours part of a segment: the text behind the day part and the space
HoursOf(seg) == Slice(seg, Len(DayPart(seg)) + 1, Len(seg))

\* the number of ranges in the hours part of an open segment: each range
\* is written with 11 characters and ", " stands between two of them
RangeCount(hours) == (Len(hours) + 2) \div 13

\* the Start of the i-th range of the hours part of an open segment
StartAt(hours, i) == Slice(hours, 13 * (i - 1), 13 * (i - 1) + 5)

\* C23: in Format(Parse(s)) the ranges of every open segment stand in
\* non-decreasing order of hour*60+minute of their start times
C23_Chronological ==
  (pc = "formatted" /\ origin = "Parse") =>
    LET segs == Segments(formatted)
    IN  \A k \in 1..Len(segs) :
          LET hours == HoursOf(segs[k])
          IN  hours # "Closed" =>
                \A i \in 1..(RangeCount(hours) - 1) :
                  MinuteOfDay(StartAt(hours, i)) <= MinuteOfDay(StartAt(hours, i + 1))

\* the places in rs of the ranges that start at the time start
PlacesOf(rs, start) == { i \in 1..Len(rs) : rs[i].Start = start }

\* sorted holds the ranges of stored that start at the time start in the
\* order in which stored holds them
KeepsOrder(stored, sorted, start) ==
  LET from == PlacesOf(stored, start)
      to == PlacesOf(sorted, start)
  IN  /\ Cardinality(from) = Cardinality(to)
      /\ \A i \in from :
           \E j \in to :
             /\ sorted[j] = stored[i]
             /\ Cardinality({ x \in from : x < i }) = Cardinality({ y \in to : y < j })

\* C24: whatever the length of the list, the sorted ranges of an open group
\* keep the ranges of equal Start in their stored order, and so does the
\* string formatGroup returns
C24_StableSort ==
  /\ fgPc \in {"sorted", "returned"} /\ fgRanges # <<>> =>
       \A i \in 1..Len(fgGroup.Ranges) :
         KeepsOrder(fgGroup.Ranges, fgRanges, fgGroup.Ranges[i].Start)
  /\ fgPc = "returned" /\ fgRanges # <<>> =>
       fgResult = formatGroup(fgGroup)

\* C25: the canonical text normalizeText returns holds no en-dash, no
\* em-dash, no tab, no carriage return, no newline, no uppercase letter and
\* no run of two or more spaces
C25_NormalForm ==
  origin = "Parse" =>
    /\ ~Contains(normalized, EnDash)
    /\ ~Contains(normalized, EmDash)
    /\ ~Contains(normalized, "\t")
    /\ ~Contains(normalized, "\r")
    /\ ~Contains(normalized, "\n")
    /\ \A k \in 0..(Len(UpperLetters) - 1) : ~Contains(normalized, CharAt(UpperLetters, k))
    /\ ~Contains(normalized, "  ")

\* the days whose names occur in the canonical text
DaysFound == { d \in DaySet : Index(normalized, d) # -1 }

\* the positions of the canonical text at which the window of a day that
\* occurs in it begins and ends, as parseScheduleText cuts it
WindowStart(d) == Index(normalized, d) + Len(d)

WindowEnd(d) == WindowStart(d) + nextDayIdx(afterDay(normalized, d), d)

\* the number of ranges the schedule holds, over the days 0 .. k
RECURSIVE RangesUpTo(_)
RangesUpTo(k) ==
  IF k < 0 THEN 0 ELSE Len(schedule[k].Ranges) + RangesUpTo(k - 1)

\* the intervals of the whole canonical text that stand behind the first
\* day name (no interval holds a letter, so one that ends behind the name
\* begins behind it), by their place among the matches
IntervalsBehindFirstDay ==
  LET first == Min({ WindowStart(d) : d \in DaysFound })
      all == FindAllStringSubmatch(normalized)
  IN  IF DaysFound = {} THEN {}
      ELSE { k \in 1..Len(all) : all[k][3] > first }

\* C26: the windows of two different days share no position of the
\* canonical text, every interval of the text is counted for at most one
\* day, and an interval that stands before the first day name is counted
\* for no day
C26_WindowsDisjoint ==
  origin = "Parse" =>
    /\ \A d, e \in DaysFound :
         d # e => (WindowEnd(d) <= WindowStart(e) \/ WindowEnd(e) <= WindowStart(d))
    /\ \A d \in DaysFound : WindowStart(d) <= WindowEnd(d)
    /\ RangesUpTo(6) <= Cardinality(IntervalsBehindFirstDay)

\* Parse has returned for a text whose two intervals stand before its only
\* day name: no day has a range
C26_Witness ==
  /\ origin = "Parse"
  /\ normalized = " 8:00-13:00 15:00-18:00monday "
  /\ Len(FindAllStringSubmatch(normalized)) = 2
  /\ RangesUpTo(6) = 0
  /\ schedule[Monday].Closed

\* the places of the segments that read "Closed"
ClosedSegments(segs) == { k \in 1..Len(segs) : HoursOf(segs[k]) = "Closed" }

\* C27: in Format(Parse(s)) no two consecutive segments both read "Closed",
\* and at most 4 segments read "Closed"
C27_ClosedMerged ==
  (pc = "formatted" /\ origin = "Parse") =>
    LET segs == Segments(formatted)
    IN  /\ \A k \in ClosedSegments(segs) : k + 1 \notin ClosedSegments(segs)
        /\ Cardinality(ClosedSegments(segs)) <= 4

\* Format has returned for a parsed week whose closed days stand alone
\* between open days: four segments read "Closed"
C27_Witness ==
  /\ pc = "formatted"
  /\ origin = "Parse"
  /\ rawText = AlternatingInput
  /\ Cardinality(ClosedSegments(Segments(formatted))) = 4
  /\ Len(Segments(formatted)) = 7

\* C28: when the scraped hours are not empty, hoursClean is not empty once
\* the schedule is parsed, and the NOTE of the card is "Hours: " followed
\* by the string Format returned for the parsed schedule, never by the raw
\* text in its place; when no day of the parsed schedule is open it reads
\* "Hours: Mon-Sun Closed"
C28_NoteIsFormattedHours ==
  /\ (mainPc \in {"parsed", "saved", "no name"} /\ business.Hours # "") =>
       /\ hoursClean # ""
       /\ \E k \in 1..Len(orderedDays) :
            HasPrefix(hoursClean, DayString(orderedDays[k]))
  /\ (mainPc = "saved" /\ business.Hours # "") =>
       /\ note = "Hours: " \o hoursClean
       /\ (\A i \in 0..6 : ClosedAndEmpty(parsedSchedule[i])) =>
            note = "Hours: Mon-Sun Closed"
       /\ (\E i \in 0..6 : ~ClosedAndEmpty(parsedSchedule[i])) =>
            note # "Hours: " \o business.Hours

\* the card is written for a business whose hours text holds no day name:
\* the NOTE reads "Hours: Mon-Sun Closed", not the raw text
C28_Witness ==
  /\ mainPc = "saved"
  /\ business.Hours = "Open 24 hours"
  /\ hoursClean = "Mon-Sun Closed"
  /\ note = "Hours: Mon-Sun Closed"

\* the host is one of the five domains or a dot-separated subdomain of one
AllowedHost(host) ==
  \E k \in 1..Len(validDomains) :
    host = validDomains[k] \/ HasSuffix(host, "." \o validDomains[k])

\* C30: the program gets past the validation, and sends a request to the
\* network, only for a URL whose scheme is http or https and whose host is
\* one of the five domains or a dot-separated subdomain of one of them
C30_OnlyGoogleHosts ==
  (networkUsed \/ mainPc \in {"valid", "scraped", "parsed", "saved"}) =>
    /\ URLScheme(mainURL) \in {"http", "https"}
    /\ AllowedHost(URLHost(mainURL))

\* C29: the Result that Normalize returns is consistent on every path: with
\* Success true the Error is nil, NormalizedURL is not empty and URLType is
\* "direct" or "search->place"; with Success false the Error is not nil
\* and NormalizedURL is empty
C29_ResultConsistent ==
  normPc = "returned" =>
    IF result.Success
    THEN /\ result.Error = "nil"
         /\ result.NormalizedURL # ""
         /\ result.URLType \in {"direct", "search->place"}
    ELSE /\ result.Error # "nil"
         /\ result.NormalizedURL = ""

\* Normalize returns the link of a search page that the second strategy
\* found after the first one failed
C29_Witness ==
  /\ normPc = "returned"
  /\ result.Success
  /\ result.URLType = "search->place"
  /\ Len(result.DebugInfo.SearchAttempts) = 2
  /\ result.NormalizedURL = "https://www.google.com/maps/place/Cafe/data=!4m2!3m1!1s0xd0:0x1"
====
